---- MODULE Spec2Model ----
(***************************************************************************)
(* py-hotstart: the PID-file guard (src/src/hsserver/daemon.rs), the       *)
(* accept loop of the hot-spare server (src/src/hsserver/server.rs) and    *)
(* the supervisor with its exit-info ring                                  *)
(* (src/src/hsserver/supervisor.rs).                                       *)
(*                                                                         *)
(* The specifications share the variables:                                 *)
(*   SpecPid   two processes racing through PidFileGuard::new;             *)
(*   Spec      ServerState::run serving one connection after another;      *)
(*   SpecSup   a Supervisor spawning, reaping and answering lookups, from  *)
(*             Supervisor::new();                                          *)
(*   SpecWrap  the same Supervisor started where next_child_id is a few    *)
(*             spawns below the top of its u32 range.                      *)
(*   SpecChildId  a ChildId displayed and parsed back;                     *)
(*   SpecParse    ChildId::from_str applied to short texts;                *)
(*   SpecCli      run invocations of the client (src/src/hsclient/cli.rs); *)
(*   SpecProxy    one session of do_proxy (src/src/hsclient/proxy.rs), and *)
(*                SpecProxyFair, the same with the client always running;  *)
(*   SpecBlocking the accept loop of src/src/hsserver.rs, whose EXITCODE   *)
(*                handler waits for the child;                             *)
(*   SpecFd       one send_with_fd and recv_with_fd (src/src/sendfd.rs);   *)
(*   SpecChan     interpreter handles and what is written on their control *)
(*                channels (src/src/interpreter.rs).                       *)
(***************************************************************************)
EXTENDS Integers, Sequences, FiniteSets, TLC

VARIABLES
    \* ---- PID-file guard (daemon.rs) ----
    pidfile,              \* contents of the PID file path, or NoFile
    tmpfiles,             \* the pids p whose sibling temp file <path>.pid.<p> exists
    acq,                  \* acq[p]: position of process p inside PidFileGuard::new
    \* ---- server (server.rs) ----
    phase,                \* "starting" | "accepting" | "exited"
    current_interpreter,  \* ServerState.current_interpreter: NoInterp or [pid, inst]
    prelude_code,         \* ServerState.prelude_code: None or a prelude
    procs,                \* processes forked so far: procs[inst] = [pid, st]
    server_fds,           \* instances whose PtyMaster the server process holds open
    conn,                 \* the connection served last: request, writes, result
    handed,               \* the (pid, inst) pairs delivered by a successful sendmsg
    nconn,                \* connections accepted so far
    \* ---- supervisor (supervisor.rs) ----
    next_child_id,        \* Supervisor.next_child_id (u32)
    running_children,     \* Supervisor.running_children: set of [pid, id]
    exit_info,            \* Supervisor.exit_info: ExitInfoRecord
    children,             \* OS view of the forked children: [pid, id, st, code]
    issued,               \* ids returned by spawn_interpreter, in order
    exits,                \* (id, code) pairs passed to child_exit, in order
    sup_state,            \* "up" | "panicked"
    last_get,             \* the call made last and its result, when it was a
                          \* Supervisor::get_exit_code (NoGet otherwise)
    last_kill,            \* the same for a Supervisor::kill (NoKill otherwise)
    drop_log,             \* the kill calls made by Drop, in order: [id, pid, ok]
    last_spawn,           \* the same as last_get for a spawn_interpreter that
                          \* returned an error (NoSpawn otherwise)
    \* ---- ChildId text form (supervisor.rs, interpreter.rs) ----
    cid,                  \* the ChildId being displayed: [id, pid]
    cid_text,             \* the text displayed, or the text given to from_str
    parsed,               \* the result of from_str: [ok, id, pid]
    cid_pc,               \* "value" | "text" | "shown" | "parsed"
    \* ---- client (hsclient/cli.rs) ----
    cli,                  \* per invocation: position in main and what it holds
    ih,                   \* per interpreter: its handle and its control channel
    \* ---- terminal proxy (hsclient/proxy.rs) ----
    px,                   \* do_proxy: position, terminal modes, descriptors
    \* ---- server with the blocking EXITCODE handler (hsserver.rs) ----
    backlog,              \* connections waiting to be accepted
    waitpid_on,           \* the child (instance) the handler waits for, or NoWait
    \* ---- descriptor passing over a stream pair (sendfd.rs) ----
    sk,                   \* one send_with_fd and its recv_with_fd
    \* ---- readiness loop of the server (hsserver.old2.rs) ----
    ev,                   \* main: position, the events of this wake-up, clients
    \* ---- the shared bootstrap file (supervisor.rs, server.rs) ----
    boot                  \* the file, the forked children, slot and prelude

pidVars == <<pidfile, tmpfiles, acq>>
srvVars == <<phase, current_interpreter, prelude_code, procs, server_fds,
             conn, handed, nconn>>
supVars == <<next_child_id, running_children, exit_info, children, issued,
             exits, sup_state, last_get, last_kill, drop_log, last_spawn>>
strVars == <<cid, cid_text, parsed, cid_pc>>
cliVars == <<cli, ih>>
auxVars == <<ev, boot>>
ioVars == <<px, backlog, waitpid_on, sk, auxVars>>
vars == <<pidVars, srvVars, supVars, strVars, cliVars, ioVars>>

None == "None"

(***************************************************************************)
(*                     PID-file guard: daemon.rs                           *)
(***************************************************************************)

\* The two processes calling PidFileGuard::new; a process is named by its pid.
Acquirers == {1, 2}
\* A pid left in the file by a daemon that has died, and one of a live process.
StalePid == 3
LivePid == 4
\* Encodings of the path being absent and of contents that do not parse as an i32.
NoFile == 0
Junk == -1

\* process_is_alive: kill(pid, None) succeeds. The acquirers run for the whole
\* of the race.
process_is_alive(pid) == pid \in Acquirers \cup {LivePid}

AcqStart == [pc |-> "exists", seen |-> NoFile, link |-> None]

PidInit ==
    /\ pidfile \in {NoFile, StalePid, LivePid, Junk}
    /\ tmpfiles = {}
    /\ acq = [p \in Acquirers |-> AcqStart]

\* test(): `if path.as_ref().exists()`
TestExists(p) ==
    /\ acq[p].pc = "exists"
    /\ acq' = [acq EXCEPT ![p].pc = IF pidfile # NoFile THEN "read" ELSE "write_tmp"]
    /\ UNCHANGED <<pidfile, tmpfiles>>
    /\ UNCHANGED <<srvVars, supVars, strVars, cliVars, ioVars>>

\* test(): `read_to_string(path)?`: the file may be gone by now.
TestRead(p) ==
    /\ acq[p].pc = "read"
    /\ acq' = [acq EXCEPT ![p] = IF pidfile = NoFile
                                 THEN [@ EXCEPT !.pc = "error"]
                                 ELSE [@ EXCEPT !.pc = "alive", !.seen = pidfile]]
    /\ UNCHANGED <<pidfile, tmpfiles>>
    /\ UNCHANGED <<srvVars, supVars, strVars, cliVars, ioVars>>

\* test()/new(): parse, process_is_alive, `bail!("file exists for running process")`
TestAlive(p) ==
    /\ acq[p].pc = "alive"
    /\ acq' = [acq EXCEPT ![p].pc =
                 IF acq[p].seen # Junk /\ process_is_alive(acq[p].seen)
                 THEN "already_running" ELSE "unlink_stale"]
    /\ UNCHANGED <<pidfile, tmpfiles>>
    /\ UNCHANGED <<srvVars, supVars, strVars, cliVars, ioVars>>

\* test(): `std::fs::remove_file(&path)?`: unlinks whatever is at the path now.
TestUnlink(p) ==
    /\ acq[p].pc = "unlink_stale"
    /\ IF pidfile = NoFile
       THEN /\ acq' = [acq EXCEPT ![p].pc = "error"]
            /\ UNCHANGED pidfile
       ELSE /\ pidfile' = NoFile
            /\ acq' = [acq EXCEPT ![p].pc = "write_tmp"]
    /\ UNCHANGED tmpfiles
    /\ UNCHANGED <<srvVars, supVars, strVars, cliVars, ioVars>>

\* new(): create, write and sync <path>.pid.<pid>
WriteTmp(p) ==
    /\ acq[p].pc = "write_tmp"
    /\ tmpfiles' = tmpfiles \cup {p}
    /\ acq' = [acq EXCEPT ![p].pc = "hard_link"]
    /\ UNCHANGED pidfile
    /\ UNCHANGED <<srvVars, supVars, strVars, cliVars, ioVars>>

\* new(): `hard_link(&tmp_file_path, &pid_file_path)`: fails when the target exists.
HardLink(p) ==
    /\ acq[p].pc = "hard_link"
    /\ IF pidfile = NoFile
       THEN /\ pidfile' = p
            /\ acq' = [acq EXCEPT ![p].pc = "rm_tmp", ![p].link = "ok"]
       ELSE /\ UNCHANGED pidfile
            /\ acq' = [acq EXCEPT ![p].pc = "rm_tmp", ![p].link = "exists"]
    /\ UNCHANGED tmpfiles
    /\ UNCHANGED <<srvVars, supVars, strVars, cliVars, ioVars>>

\* new(): `remove_file(&tmp_file_path)?; result.context("hard_link error")?;`
RemoveTmp(p) ==
    /\ acq[p].pc = "rm_tmp"
    /\ tmpfiles' = tmpfiles \ {p}
    /\ acq' = [acq EXCEPT ![p].pc = IF acq[p].link = "ok" THEN "guard"
                                    ELSE "already_running"]
    /\ UNCHANGED pidfile
    /\ UNCHANGED <<srvVars, supVars, strVars, cliVars, ioVars>>

PidNext ==
    \E p \in Acquirers :
        \/ TestExists(p)
        \/ TestRead(p)
        \/ TestAlive(p)
        \/ TestUnlink(p)
        \/ WriteTmp(p)
        \/ HardLink(p)
        \/ RemoveTmp(p)

(***************************************************************************)
(*                          Server: server.rs                              *)
(***************************************************************************)

\* Bounds of the server model.
MaxProcs == 3
MaxPid == 3
MaxConns == 3

Pids == 1..MaxPid
\* The preludes a client sends, as texts; the first is the empty prelude.
Preludes == {<<>>, <<"p1">>, <<"p2">>}

\* The pids the OS cannot hand out: those of running and of unreaped processes.
PidsInUse(ps) == {ps[i].pid : i \in {j \in 1..Len(ps) : ps[j].st # "reaped"}}

\* The outcomes of one fork(): an error, or a child with any pid not in use.
ForkFail == 0
ForkResults(ps) ==
    {ForkFail} \cup (IF Len(ps) < MaxProcs THEN Pids \ PidsInUse(ps) ELSE {})

\* Option::None in the hot-spare slot (pids and instances count from 1).
NoInterp == [pid |-> 0, inst |-> 0]

\* The part of ServerState the handlers change.
ServerRec(ci, pre, ps, fds) ==
    [ci |-> ci, pre |-> pre, procs |-> ps, fds |-> fds]

\* Dropping an InterpreterState closes its PtyMaster.
DropInterp(fds, ci) == IF ci = NoInterp THEN fds ELSE fds \ {ci.inst}

\* ServerState::spawn_interpreter: on a PTY or fork error nothing changes; in the
\* parent the new child replaces (and so drops) whatever the slot held.
SpawnInterpreter(s, res) ==
    IF res = ForkFail
    THEN [ok |-> FALSE, s |-> s]
    ELSE LET inst == Len(s.procs) + 1 IN
         [ok |-> TRUE,
          s  |-> [s EXCEPT !.ci = [pid |-> res, inst |-> inst],
                           !.procs = Append(s.procs, [pid |-> res, st |-> "alive"]),
                           !.fds = DropInterp(s.fds, s.ci) \cup {inst}]]

\* graceful_kill(pid): SIGTERM, then waitpid(WNOHANG) for up to 2 s. A child that
\* dies (or was a zombie already) is reaped in the loop. A child still alive at the
\* timeout leaves status = StillAlive, so the SIGKILL branch
\* (`if status != WaitStatus::StillAlive`) is not taken and it stays alive. On a pid
\* already reaped waitpid fails and the loop breaks. Always returns Ok.
GracefulKill(ps, inst, dies) ==
    IF ps[inst].st = "zombie" \/ (ps[inst].st = "alive" /\ dies)
    THEN [ps EXCEPT ![inst].st = "reaped"]
    ELSE ps

\* The signals graceful_kill(pid) delivers, in order, each with whether the
\* child of the slot had been reaped when it was sent: SIGTERM first; SIGKILL
\* when `status != WaitStatus::StillAlive`, that is when the loop has reaped
\* the child.
GracefulKillSignals(ps, inst, dies) ==
    <<[sig |-> "SIGTERM", inst |-> inst, reaped |-> ps[inst].st = "reaped"]>>
        \o (IF ps[inst].st = "zombie" \/ (ps[inst].st = "alive" /\ dies)
            THEN <<[sig |-> "SIGKILL", inst |-> inst, reaped |-> TRUE]>>
            ELSE <<>>)

\* Option<String> of prelude_code
NoPrelude == [some |-> FALSE, text |-> <<>>]
SomePrelude(prelude) == [some |-> TRUE, text |-> prelude]

\* ServerState::handle_initialize
HandleInitialize(s, prelude, dies, res) ==
    LET killed == IF s.ci = NoInterp THEN s.procs
                  ELSE GracefulKill(s.procs, s.ci.inst, dies)
        s1 == [s EXCEPT !.procs = killed, !.pre = SomePrelude(prelude)]
    IN  SpawnInterpreter(s1, res)

OkPid(ci) == [text |-> "OK <pid>", pid |-> ci.pid, fd |-> ci.inst]
Plain(text) == [text |-> text, pid |-> 0, fd |-> 0]

\* handle_run_request as it would be without `self.spawn_interpreter()?` after
\* the send.
HandleRunRequestNoRefill(s, sendOk, res, writeOk) ==
    IF s.ci # NoInterp
    THEN [ok |-> sendOk,
          s |-> [s EXCEPT !.ci = NoInterp, !.fds = DropInterp(s.fds, s.ci)],
          writes |-> IF sendOk THEN <<OkPid(s.ci)>> ELSE <<>>,
          took |-> s.ci, sent |-> sendOk]
    ELSE [ok |-> writeOk, s |-> s,
          writes |-> IF writeOk THEN <<Plain("ERROR")>> ELSE <<>>,
          took |-> NoInterp, sent |-> FALSE]

\* ServerState::handle_run_request. `took` is what current_interpreter.take()
\* returned; `sent` whether sendmsg delivered the response and the descriptor.
HandleRunRequest(s, sendOk, res, writeOk) ==
    IF s.ci # NoInterp
    THEN LET interp == s.ci
             \* take() empties the slot; interp is dropped when the handler returns
             s1 == [s EXCEPT !.ci = NoInterp, !.fds = DropInterp(s.fds, interp)]
         IN  IF ~sendOk
             THEN [ok |-> FALSE, s |-> s1, writes |-> <<>>, took |-> interp,
                   sent |-> FALSE]
             ELSE LET sp == SpawnInterpreter([s1 EXCEPT !.fds = s.fds], res) IN
                  [ok |-> sp.ok,
                   s |-> [sp.s EXCEPT !.fds = DropInterp(sp.s.fds, interp)],
                   writes |-> <<OkPid(interp)>>, took |-> interp, sent |-> TRUE]
    ELSE [ok |-> writeOk, s |-> s,
          writes |-> IF writeOk THEN <<Plain("ERROR")>> ELSE <<>>,
          took |-> NoInterp, sent |-> FALSE]

\* The error arm as it would be with `self.handle(&mut stream)?`: run() returns.
RunOnErrorPropagate(writes) == [writes |-> writes, phase |-> "exited"]

\* The error arm of ServerState::run: log, try to write `ERROR: <err>\n` (the
\* result of the write is ignored), `continue`.
RunOnError(writes) ==
    [writes |-> Append(writes, Plain("ERROR: <message>")), phase |-> "accepting"]

\* ServerState::run after self.handle(&mut stream) has returned.
AfterHandle(ok, writes) ==
    IF ok THEN [writes |-> writes, phase |-> "accepting"]
    ELSE RunOnError(writes)

ServerNow == ServerRec(current_interpreter, prelude_code, procs, server_fds)

\* One connection served: the handler's result h = [ok, s, writes, ...].
\* One iteration of the loop of run(): the request `req` (with the pid `arg` an
\* EXITCODE request names) is handled with outcome h.
\* `text` is the request as the client sent it, where the model follows it.
ServedText(text, req, arg, h, took, sent) ==
    LET a == AfterHandle(h.ok, h.writes) IN
    /\ current_interpreter' = h.s.ci
    /\ prelude_code' = h.s.pre
    /\ procs' = h.s.procs
    /\ server_fds' = h.s.fds
    /\ phase' = a.phase
    /\ nconn' = nconn + 1
    /\ conn' = [req |-> req, text |-> text, arg |-> arg, result |-> IF h.ok THEN "ok" ELSE "err",
                writes |-> a.writes, took |-> took, sent |-> sent,
                signals |-> IF "signals" \in DOMAIN h THEN h.signals ELSE <<>>,
                procs_before |-> Len(procs),
                errs_before |-> conn.errs_before
                                + (IF conn.result = "err" THEN 1 ELSE 0)]
    /\ handed' = IF sent THEN Append(handed, took) ELSE handed

ServedFor(req, arg, h, took, sent) == ServedText(<<>>, req, arg, h, took, sent)

Served(req, h, took, sent) == ServedFor(req, 0, h, took, sent)

Accepting == phase = "accepting" /\ nconn < MaxConns

SrvInit ==
    /\ phase = "starting"
    /\ current_interpreter = NoInterp
    /\ prelude_code = NoPrelude
    /\ procs = <<>>
    /\ server_fds = {}
    /\ conn = [req |-> None, text |-> <<>>, arg |-> 0, result |-> None, writes |-> <<>>,
               took |-> NoInterp, sent |-> FALSE, signals |-> <<>>,
               procs_before |-> 0, errs_before |-> 0]
    /\ handed = <<>>
    /\ nconn = 0

\* run(): `self.spawn_interpreter()?;` before the loop.
RunStart ==
    /\ phase = "starting"
    /\ \E res \in ForkResults(procs) :
          LET sp == SpawnInterpreter(ServerNow, res) IN
          /\ current_interpreter' = sp.s.ci
          /\ procs' = sp.s.procs
          /\ server_fds' = sp.s.fds
          /\ phase' = IF sp.ok THEN "accepting" ELSE "exited"
    /\ UNCHANGED <<prelude_code, conn, handed, nconn>>
    /\ UNCHANGED <<pidVars, supVars, strVars, cliVars, ioVars>>

\* handle(): `stream.read(&mut buf).context("Failed to read request")?`
ServeReadError ==
    /\ Accepting
    /\ Served("<read error>", [ok |-> FALSE, s |-> ServerNow, writes |-> <<>>],
              NoInterp, FALSE)
    /\ UNCHANGED <<pidVars, supVars, strVars, cliVars, ioVars>>

\* handle(): `if n == 0 { return Ok(()); }`
ServeEmpty ==
    /\ Accepting
    /\ Served("", [ok |-> TRUE, s |-> ServerNow, writes |-> <<>>], NoInterp, FALSE)
    /\ UNCHANGED <<pidVars, supVars, strVars, cliVars, ioVars>>

\* The whitespace str::trim removes.
Whitespace == {" ", "\n"}

RECURSIVE TrimStart(_)
TrimStart(t) ==
    IF t # <<>> /\ Head(t) \in Whitespace THEN TrimStart(Tail(t)) ELSE t

RECURSIVE TrimEnd(_)
TrimEnd(t) ==
    IF t # <<>> /\ t[Len(t)] \in Whitespace
    THEN TrimEnd(SubSeq(t, 1, Len(t) - 1)) ELSE t

\* str::trim: leading and trailing whitespace removed
Trim(t) == TrimEnd(TrimStart(t))

\* "INIT " as the keyword and the space after it
InitPrefix == <<"INIT", " ">>

StartsWith(t, prefix) ==
    Len(t) >= Len(prefix) /\ SubSeq(t, 1, Len(prefix)) = prefix

\* initialize_prelude: format!("INIT {}", prelude)
InitializePrelude(prelude) == InitPrefix \o prelude

\* handle() on the request text of an INIT: the text is trimmed; if it still
\* starts with "INIT " the rest is the prelude for handle_initialize and "OK" is
\* written; otherwise it is not "RUN" and does not start with "EXITCODE "
\* either, and "UNKNOWN" is written.
HandleInit(s, text, dies, res, writeOk) ==
    LET req == Trim(text) IN
    IF StartsWith(req, InitPrefix)
    THEN LET h == HandleInitialize(s, SubSeq(req, Len(InitPrefix) + 1, Len(req)),
                                   dies, res)
         IN  [ok |-> h.ok /\ writeOk, s |-> h.s,
              writes |-> IF h.ok /\ writeOk THEN <<Plain("OK")>> ELSE <<>>,
              signals |-> IF s.ci = NoInterp THEN <<>>
                          ELSE GracefulKillSignals(s.procs, s.ci.inst, dies)]
    ELSE [ok |-> writeOk, s |-> s,
          writes |-> IF writeOk THEN <<Plain("UNKNOWN")>> ELSE <<>>,
          signals |-> <<>>]

\* handle(): a client's `INIT <prelude>`.
ServeInit ==
    /\ Accepting
    /\ \E prelude \in Preludes, dies \in BOOLEAN, res \in ForkResults(procs),
          writeOk \in BOOLEAN :
          ServedText(InitializePrelude(prelude), "INIT", 0,
                     HandleInit(ServerNow, InitializePrelude(prelude), dies, res,
                                writeOk),
                     NoInterp, FALSE)
    /\ UNCHANGED <<pidVars, supVars, strVars, cliVars, ioVars>>

\* handle(): `RUN`
ServeRun ==
    /\ Accepting
    /\ \E sendOk \in BOOLEAN, res \in ForkResults(procs), writeOk \in BOOLEAN :
          LET h == HandleRunRequest(ServerNow, sendOk, res, writeOk) IN
          Served("RUN", h, h.took, h.sent)
    /\ UNCHANGED <<pidVars, supVars, strVars, cliVars, ioVars>>

\* The arguments of an EXITCODE request: the pid of any child the server has
\* forked, or text that is no i32 (NoPid).
NoPid == 0
ExitcodeArgs == {procs[i].pid : i \in 1..Len(procs)} \cup {NoPid}

\* ServerState::handle_exitcode_request: the pid is parsed as an i32 (an error
\* when it does not parse); nothing is waited for and nothing is written.
HandleExitcodeRequest(s, arg) ==
    [ok |-> arg # NoPid, s |-> s, writes |-> <<>>]

\* handle(): `EXITCODE <pid>`
ServeExitcode ==
    /\ Accepting
    /\ \E arg \in ExitcodeArgs :
          ServedFor("EXITCODE", arg, HandleExitcodeRequest(ServerNow, arg),
                    NoInterp, FALSE)
    /\ UNCHANGED <<pidVars, supVars, strVars, cliVars, ioVars>>

\* handle(): any other request: write "UNKNOWN".
ServeUnknown ==
    /\ Accepting
    /\ \E writeOk \in BOOLEAN :
          Served("<other>",
                 [ok |-> writeOk, s |-> ServerNow,
                  writes |-> IF writeOk THEN <<Plain("UNKNOWN")>> ELSE <<>>],
                 NoInterp, FALSE)
    /\ UNCHANGED <<pidVars, supVars, strVars, cliVars, ioVars>>

\* The environment: a running interpreter terminates on its own.
ChildTerminates ==
    /\ \E i \in 1..Len(procs) :
          /\ procs[i].st = "alive"
          /\ procs' = [procs EXCEPT ![i].st = "zombie"]
    /\ UNCHANGED <<phase, current_interpreter, prelude_code, server_fds, conn,
                   handed, nconn>>
    /\ UNCHANGED <<pidVars, supVars, strVars, cliVars, ioVars>>

SrvNext ==
    \/ RunStart
    \/ ServeReadError
    \/ ServeEmpty
    \/ ServeInit
    \/ ServeRun
    \/ ServeExitcode
    \/ ServeUnknown
    \/ ChildTerminates

(***************************************************************************)
(*        Server with the blocking EXITCODE handler: hsserver.rs           *)
(***************************************************************************)

\* Connections that have arrived and are not accepted yet.
MaxBacklog == 2

NoWait == 0

BlockIdle == backlog = 0 /\ waitpid_on = NoWait

\* The child process waitpid(pid) refers to: the unreaped child with that pid.
WaitTarget(ps, pid) == {i \in 1..Len(ps) : ps[i].pid = pid /\ ps[i].st # "reaped"}

\* handle_exitcode_request of hsserver.rs: the pid is parsed (an error when it
\* does not parse), then `waitpid(Some(pid), None)`: ECHILD for a process that
\* is not an unreaped child, the status of a zombie at once, and no return
\* while the child runs (`blocks`). The code is written as `<code>\n`.
HandleExitcodeWaitpid(s, arg) ==
    LET t == WaitTarget(s.procs, arg) IN
    IF arg = NoPid \/ t = {}
    THEN [ok |-> FALSE, s |-> s, writes |-> <<>>, blocks |-> NoWait]
    ELSE LET i == CHOOSE j \in t : TRUE IN
         IF s.procs[i].st = "alive"
         THEN [ok |-> TRUE, s |-> s, writes |-> <<>>, blocks |-> i]
         ELSE [ok |-> TRUE, s |-> [s EXCEPT !.procs[i].st = "reaped"],
               writes |-> <<Plain("<code>")>>, blocks |-> NoWait]

\* The environment: a client connects to the listening socket.
ClientConnects ==
    /\ phase \in {"accepting", "waitpid"}
    /\ backlog < MaxBacklog
    /\ backlog' = backlog + 1
    /\ UNCHANGED <<px, waitpid_on, sk, auxVars>>
    /\ UNCHANGED <<pidVars, srvVars, supVars, strVars, cliVars>>

\* run(): accept, then handle(): `RUN`
AcceptRun ==
    /\ Accepting
    /\ backlog > 0
    /\ \E sendOk \in BOOLEAN, res \in ForkResults(procs), writeOk \in BOOLEAN :
          LET h == HandleRunRequest(ServerNow, sendOk, res, writeOk) IN
          Served("RUN", h, h.took, h.sent)
    /\ backlog' = backlog - 1
    /\ UNCHANGED <<px, waitpid_on, sk, auxVars>>
    /\ UNCHANGED <<pidVars, supVars, strVars, cliVars>>

\* run(): accept, then handle(): `EXITCODE <pid>`; the handler returns, or it
\* stays in waitpid.
AcceptExitcode ==
    /\ Accepting
    /\ backlog > 0
    /\ \E arg \in ExitcodeArgs :
          LET h == HandleExitcodeWaitpid(ServerNow, arg) IN
          IF h.blocks = NoWait
          THEN /\ ServedFor("EXITCODE", arg, h, NoInterp, FALSE)
               /\ UNCHANGED waitpid_on
          ELSE /\ phase' = "waitpid"
               /\ waitpid_on' = h.blocks
               /\ UNCHANGED <<current_interpreter, prelude_code, procs,
                              server_fds, conn, handed, nconn>>
    /\ backlog' = backlog - 1
    /\ UNCHANGED <<px, sk, auxVars>>
    /\ UNCHANGED <<pidVars, supVars, strVars, cliVars>>

\* waitpid returns in handle_exitcode_request: the child has exited; the code
\* is written and run() goes back to accept.
WaitpidReturns ==
    /\ phase = "waitpid"
    /\ procs[waitpid_on].st = "zombie"
    /\ ServedFor("EXITCODE", procs[waitpid_on].pid,
                 HandleExitcodeWaitpid(ServerNow, procs[waitpid_on].pid),
                 NoInterp, FALSE)
    /\ waitpid_on' = NoWait
    /\ UNCHANGED <<px, backlog, sk, auxVars>>
    /\ UNCHANGED <<pidVars, supVars, strVars, cliVars>>

BlockingNext ==
    \/ RunStart
    \/ ClientConnects
    \/ AcceptRun
    \/ AcceptExitcode
    \/ WaitpidReturns
    \/ ChildTerminates

(***************************************************************************)
(*                      Supervisor: supervisor.rs                          *)
(***************************************************************************)

\* Bounds of the supervisor model: the ring's capacity (ExitInfoRecord::new takes
\* it as `limit`), the children spawned in one run, and how far below the top of
\* the u32 range SpecWrap starts.
RingLimit == 2
MaxSpawns == 3
WrapHeadroom == 2
\* The pids fork() gives the supervisor's children: a pid is free again once its
\* child has been reaped.
MaxChildPid == 2
ChildPids == 1..MaxChildPid

\* A u32 is held as the integer with the same 32-bit pattern read as two's
\* complement: 0 .. 2^31-1 stand for themselves, and -k stands for 2^32 - k.
\* So -1 is u32::MAX, and adding one to it gives 0 as wrapping addition does.
U32Max == -1
U32WrappingInc(x) == IF x = 2147483647 THEN (-2147483647) - 1 ELSE x + 1
\* Unsigned order on the patterns.
U32Less(a, b) == IF (a < 0) = (b < 0) THEN a < b ELSE b < 0

\* Option<i32>
NoCode == [found |-> FALSE, code |-> 0]
SomeCode(c) == [found |-> TRUE, code |-> c]

\* ExitInfoRecord::new: both vectors are `vec![0; limit]`.
ExitInfoNew(limit) ==
    [child_ids |-> [i \in 1..limit |-> 0], exit_codes |-> [i \in 1..limit |-> 0],
     limit |-> limit, start |-> 0, count |-> 0]

\* set as it would be if a full ring overwrote the slot before `start`, the newest
\* entry, instead of the oldest.
ExitInfoSetEvictNewest(r, child_id, exit_code) ==
    IF r.count < r.limit
    THEN [r EXCEPT !.child_ids[r.count + 1] = child_id,
                   !.exit_codes[r.count + 1] = exit_code,
                   !.count = r.count + 1]
    ELSE LET last == (r.start + r.limit - 1) % r.limit IN
         [r EXCEPT !.child_ids[last + 1] = child_id,
                   !.exit_codes[last + 1] = exit_code,
                   !.start = (r.start + 1) % r.limit]

\* ExitInfoRecord::set (vector index k of the source is k + 1 here)
ExitInfoSet(r, child_id, exit_code) ==
    IF r.count < r.limit
    THEN [r EXCEPT !.child_ids[r.count + 1] = child_id,
                   !.exit_codes[r.count + 1] = exit_code,
                   !.count = r.count + 1]
    ELSE [r EXCEPT !.child_ids[r.start + 1] = child_id,
                   !.exit_codes[r.start + 1] = exit_code,
                   !.start = (r.start + 1) % r.limit]

\* ExitInfoRecord::get: `child_ids.iter().enumerate().find(id == child_id)` walks
\* the whole vector, whatever `count` is, and takes the first match.
ExitInfoGet(r, child_id) ==
    LET hits == {i \in 1..r.limit : r.child_ids[i] = child_id} IN
    IF hits = {} THEN NoCode
    ELSE SomeCode(r.exit_codes[CHOOSE i \in hits : \A j \in hits : i <= j])

\* The match of wait as it would be if a signal death recorded the bare signal
\* number.
ExitCodeOfBareSignal(status) == status.n

\* WaitStatus::Exited(pid, code) => code; WaitStatus::Signaled(pid, signal, _) =>
\* 128 + signal
ExitCodeOf(status) ==
    IF status.kind = "exited" THEN status.n ELSE 128 + status.n

Statuses == {[kind |-> "exited", n |-> 0], [kind |-> "signaled", n |-> 15]}
NoStatus == [kind |-> "running", n |-> 0]

\* The pids of the supervisor's children that run or wait to be reaped.
ChildPidsInUse(cs) == {cs[i].pid : i \in {j \in 1..Len(cs) : cs[j].st # "reaped"}}

\* HashMap::insert(pid, id) and HashMap::remove(pid) on running_children.
MapInsert(m, pid, id) == {e \in m : e.pid # pid} \cup {[pid |-> pid, id |-> id]}
MapRemove(m, pid) == {e \in m : e.pid # pid}
MapHas(m, pid) == \E e \in m : e.pid = pid
MapGet(m, pid) == (CHOOSE e \in m : e.pid = pid).id

\* The supervisor's fields.
SupRec(next, running, ring) ==
    [next_child_id |-> next, running_children |-> running, exit_info |-> ring]
SupNow == SupRec(next_child_id, running_children, exit_info)

\* Supervisor::spawn_interpreter after Interpreter::spawn has returned `pid`:
\* take next_child_id, add one to it, insert into running_children.
SpawnBookkeeping(sup, pid) ==
    [id  |-> sup.next_child_id,
     sup |-> [sup EXCEPT !.next_child_id = U32WrappingInc(sup.next_child_id),
                         !.running_children =
                             MapInsert(sup.running_children, pid, sup.next_child_id)]]

\* A mutation of ChildExit: the exit is recorded under the id found by
\* running_children.get(pid), the key stays in the map.
ChildExitKeepsKey(sup, pid, exit_code) ==
    IF MapHas(sup.running_children, pid)
    THEN [ok |-> TRUE,
          sup |-> [sup EXCEPT
                     !.exit_info = ExitInfoSet(sup.exit_info,
                                               MapGet(sup.running_children, pid),
                                               exit_code)],
          rec |-> <<[id |-> MapGet(sup.running_children, pid), code |-> exit_code]>>]
    ELSE [ok |-> FALSE, sup |-> sup, rec |-> <<>>]

\* Supervisor::child_exit: an error for a pid that is not in running_children.
ChildExit(sup, pid, exit_code) ==
    IF MapHas(sup.running_children, pid)
    THEN [ok |-> TRUE,
          sup |-> [sup EXCEPT
                     !.running_children = MapRemove(sup.running_children, pid),
                     !.exit_info = ExitInfoSet(sup.exit_info,
                                               MapGet(sup.running_children, pid),
                                               exit_code)],
          rec |-> <<[id |-> MapGet(sup.running_children, pid), code |-> exit_code]>>]
    ELSE [ok |-> FALSE, sup |-> sup, rec |-> <<>>]

\* Supervisor::wait over the children waitpid reports, in the order `order` (a
\* sequence of indices into cs): each is reaped and passed to child_exit; the
\* first child_exit error ends the loop with that error.
RECURSIVE WaitLoop(_, _, _)
WaitLoop(w, order, k) ==
    IF k > Len(order) \/ ~w.ok THEN w
    ELSE LET i == order[k]
             ce == ChildExit(w.sup, w.cs[i].pid, ExitCodeOf(w.cs[i].status))
         IN  WaitLoop([ok |-> ce.ok, sup |-> ce.sup,
                       cs |-> [w.cs EXCEPT ![i].st = "reaped"],
                       recs |-> w.recs \o ce.rec],
                      order, k + 1)

Wait(sup, cs, order) ==
    WaitLoop([ok |-> TRUE, sup |-> sup, cs |-> cs, recs |-> <<>>], order, 1)

Zombies(cs) == {i \in 1..Len(cs) : cs[i].st = "zombie"}

\* A mutation of Orders: the loop ends after the first child reported, one
\* reap per notification.
OrdersOneReport(zs) == {<<z>> : z \in zs}

\* The orders in which waitpid(-1, WNOHANG) may report a set of zombies.
Orders(zs) ==
    {o \in [1..Cardinality(zs) -> zs] :
        \A a, b \in 1..Cardinality(zs) : a # b => o[a] # o[b]}

\* Supervisor::get_exit_code for child_id = (id, pid), once the blocking wait can
\* return: the ring is asked first; otherwise waitpid(pid) reaps that child if it
\* is an unreaped child of the server, and the ring is asked again.
GetExitCode(sup, cs, id, pid) ==
    LET first == ExitInfoGet(sup.exit_info, id)
        mine == {i \in Zombies(cs) : cs[i].pid = pid}
        w == Wait(sup, cs, IF mine = {} THEN <<>> ELSE <<CHOOSE i \in mine : TRUE>>)
        second == ExitInfoGet(w.sup.exit_info, id)
    IN  IF first.found
        THEN [ok |-> TRUE, code |-> first.code, sup |-> sup, cs |-> cs, recs |-> <<>>]
        ELSE [ok |-> w.ok /\ second.found, code |-> second.code, sup |-> w.sup,
              cs |-> w.cs, recs |-> w.recs]

SetSup(sup) ==
    /\ next_child_id' = sup.next_child_id
    /\ running_children' = sup.running_children
    /\ exit_info' = sup.exit_info

NoGet == [called |-> FALSE, id |-> 0, pid |-> 0, ok |-> FALSE, code |-> 0]

\* What the child that receives SIGTERM does: it dies from the signal or exits
\* by itself within the 2 s window, it outlives the window, or it outlives the
\* window and exits by itself before the SIGKILL arrives.
KillFates == {"term", "natural", "survives", "late"}
SigTerm == [kind |-> "signaled", n |-> 15]
SigKill == [kind |-> "signaled", n |-> 9]
NaturalExit == [kind |-> "exited", n |-> 0]

\* The unreaped child that carries `pid`: the process a signal to pid reaches
\* and waitpid(pid) reports.
Target(cs, pid) == {i \in 1..Len(cs) : cs[i].pid = pid /\ cs[i].st # "reaped"}

\* waitpid(pid, ..) inside Supervisor::wait: a zombie with that pid is reaped.
WaitFor(sup, cs, pid) ==
    LET zs == {i \in Target(cs, pid) : cs[i].st = "zombie"} IN
    Wait(sup, cs, IF zs = {} THEN <<>> ELSE <<CHOOSE i \in zs : TRUE>>)

\* The process `pid` terminates with `status` if it is running.
Terminate(cs, pid, status) ==
    [i \in 1..Len(cs) |->
        IF i \in Target(cs, pid) /\ cs[i].st = "alive"
        THEN [cs[i] EXCEPT !.st = "zombie", !.status = status]
        ELSE cs[i]]

\* kill as it would be without the escalation `if status == -1 { SIGKILL; wait }`.
KillNoEscalation(sup, cs, id, pid, fate, early) ==
    LET running == MapHas(sup.running_children, pid)
        t == Target(cs, pid)
        cs1 == CASE fate = "term" -> Terminate(cs, pid, SigTerm)
                 [] fate = "natural" -> Terminate(cs, pid, NaturalExit)
                 [] OTHER -> cs
        w1 == WaitFor(sup, cs1, pid)
        final == ExitInfoGet(IF running THEN w1.sup.exit_info ELSE sup.exit_info,
                             id)
    IN  [ok |-> final.found, code |-> final.code,
         sup |-> IF running THEN w1.sup ELSE sup,
         cs |-> IF running THEN w1.cs ELSE cs,
         recs |-> IF running THEN w1.recs ELSE <<>>, running |-> running,
         sigterm |-> IF running /\ t # {} THEN CHOOSE i \in t : TRUE ELSE 0,
         sigkill |-> FALSE, in_window |-> running /\ w1.recs # <<>>]

\* Supervisor::kill for child_id = (id, pid). `early` tells whether a process
\* that dies in the window is dead by the first waitpid of the loop. In the
\* result, `running` is the test of the `if`, `sigterm` the child index SIGTERM
\* reached (0 for none), `sigkill` whether SIGKILL was sent, `in_window` whether
\* the 2 s loop reaped the process.
Kill(sup, cs, id, pid, fate, early) ==
    LET running == MapHas(sup.running_children, pid)
        t == Target(cs, pid)
        \* the 2 s loop: wait(Some(pid), WNOHANG), then exit_info.get(id); the
        \* loop runs on after a hit, and `status` keeps the code of any hit
        cs1 == CASE fate = "term" -> Terminate(cs, pid, SigTerm)
                 [] fate = "natural" -> Terminate(cs, pid, NaturalExit)
                 [] OTHER -> cs
        w1 == WaitFor(sup, cs1, pid)
        first == IF early THEN w1.sup ELSE WaitFor(sup, cs, pid).sup
        status == [found |-> \/ ExitInfoGet(first.exit_info, id).found
                             \/ ExitInfoGet(w1.sup.exit_info, id).found]
        \* `if status == -1`: SIGKILL, then wait(Some(pid), None)
        cs2 == IF fate = "late" THEN Terminate(w1.cs, pid, NaturalExit)
               ELSE Terminate(w1.cs, pid, SigKill)
        w2 == WaitFor(w1.sup, cs2, pid)
        w == IF status.found THEN w1 ELSE w2
        final == ExitInfoGet(w.sup.exit_info, id)
    IN  IF running
        THEN [ok |-> final.found, code |-> final.code, sup |-> w.sup, cs |-> w.cs,
              recs |-> IF status.found THEN w1.recs ELSE w1.recs \o w2.recs,
              running |-> TRUE,
              sigterm |-> IF t = {} THEN 0 ELSE CHOOSE i \in t : TRUE,
              sigkill |-> ~status.found, in_window |-> w1.recs # <<>>]
        ELSE LET stored == ExitInfoGet(sup.exit_info, id) IN
             [ok |-> stored.found, code |-> stored.code, sup |-> sup, cs |-> cs,
              recs |-> <<>>, running |-> FALSE, sigterm |-> 0, sigkill |-> FALSE,
              in_window |-> FALSE]

NoKill ==
    [called |-> FALSE, id |-> 0, pid |-> 0, ok |-> FALSE, code |-> 0,
     running |-> FALSE, sigterm |-> 0, sigkill |-> FALSE, in_window |-> FALSE]

NoSpawn == [called |-> FALSE, ok |-> FALSE, error |-> "none"]

\* Supervisor::new()
SupInit ==
    /\ next_child_id = 1
    /\ running_children = {}
    /\ exit_info = ExitInfoNew(RingLimit)
    /\ children = <<>>
    /\ issued = <<>>
    /\ exits = <<>>
    /\ sup_state = "up"
    /\ last_get = NoGet
    /\ last_kill = NoKill
    /\ drop_log = <<>>
    /\ last_spawn = NoSpawn

\* 2^32 modulo the ring's capacity, and the number n = 2^32 - WrapHeadroom - 1 of
\* exits recorded so far, modulo the capacity.
TwoTo32Mod(l) == ((65536 % l) * (65536 % l)) % l
WrapExitsMod == (TwoTo32Mod(RingLimit) - WrapHeadroom - 1) % RingLimit

\* The supervisor after 2^32 - WrapHeadroom - 1 spawns, each child having exited
\* with status 0 and been reaped before the next spawn: the ring is full, exit
\* number i sits in slot (i - 1) % limit, and start = n % limit.
WrapInit ==
    /\ next_child_id = -WrapHeadroom
    /\ running_children = {}
    /\ exit_info =
         [child_ids |-> [j \in 1..RingLimit |->
                           -WrapHeadroom - 1 - ((WrapExitsMod - j) % RingLimit)],
          exit_codes |-> [j \in 1..RingLimit |-> 0],
          limit |-> RingLimit, start |-> WrapExitsMod, count |-> RingLimit]
    /\ children = <<>>
    /\ issued = <<>>
    /\ exits = [k \in 1..RingLimit |->
                  [id |-> -WrapHeadroom - 1 - (RingLimit - k), code |-> 0]]
    /\ sup_state = "up"
    /\ last_get = NoGet
    /\ last_kill = NoKill
    /\ drop_log = <<>>
    /\ last_spawn = NoSpawn

SupUp == sup_state = "up"

\* No call of get_exit_code or kill has its result still held by the caller.
Returned == last_get = NoGet /\ last_kill = NoKill /\ last_spawn = NoSpawn

\* Supervisor::spawn_interpreter: Interpreter::spawn fails (nothing changes), or
\* forks a child. `self.next_child_id += 1` at u32::MAX panics in a build with
\* overflow checks (after the fork, before the insert) and wraps in one without.
SupSpawn ==
    /\ SupUp /\ Returned
    /\ Len(children) < MaxSpawns
    /\ \E pid \in ChildPids \ ChildPidsInUse(children), checked \in BOOLEAN :
          LET b == SpawnBookkeeping(SupNow, pid)
              overflow == next_child_id = U32Max
          IN  /\ checked => overflow
              /\ IF checked
                 THEN /\ sup_state' = "panicked"
                      /\ children' = Append(children,
                             [pid |-> pid, id |-> 0, st |-> "alive",
                              status |-> NoStatus])
                      /\ UNCHANGED <<next_child_id, running_children, exit_info,
                                     issued>>
                 ELSE /\ SetSup(b.sup)
                      /\ children' = Append(children,
                             [pid |-> pid, id |-> b.id, st |-> "alive",
                              status |-> NoStatus])
                      /\ issued' = Append(issued, b.id)
                      /\ UNCHANGED sup_state
    /\ UNCHANGED <<exits, last_get, last_kill, drop_log, last_spawn>>
    /\ UNCHANGED <<pidVars, srvVars, strVars, cliVars, ioVars>>

\* The environment: a child exits or is killed by a signal.
ChildDies ==
    /\ Returned /\ sup_state # "dropped"
    /\ \E i \in 1..Len(children), status \in Statuses :
          /\ children[i].st = "alive"
          /\ children' = [children EXCEPT ![i].st = "zombie", ![i].status = status]
    /\ UNCHANGED <<next_child_id, running_children, exit_info, issued, exits,
                   sup_state, last_get, last_kill, drop_log, last_spawn>>
    /\ UNCHANGED <<pidVars, srvVars, strVars, cliVars, ioVars>>

\* Supervisor::handle_sigchld: wait(None, WNOHANG) reaps every zombie.
HandleSigchld ==
    /\ SupUp /\ Returned
    /\ Zombies(children) # {}
    /\ \E order \in Orders(Zombies(children)) :
          LET w == Wait(SupNow, children, order) IN
          /\ SetSup(w.sup)
          /\ children' = w.cs
          /\ exits' = exits \o w.recs
    /\ UNCHANGED <<issued, sup_state, last_get, last_kill, drop_log, last_spawn>>
    /\ UNCHANGED <<pidVars, srvVars, strVars, cliVars, ioVars>>

\* The ChildIds an EXITCODE request may carry: those the supervisor issued, and
\* ids it never issued (0 and next_child_id) with the pid of no child or with
\* the pid of one of its children.
ProbeChildIds ==
    {[id |-> children[i].id, pid |-> children[i].pid] : i \in 1..Len(children)}
        \cup {[id |-> 0, pid |-> MaxChildPid + 1],
              [id |-> next_child_id, pid |-> MaxChildPid + 1]}
        \cup {[id |-> next_child_id, pid |-> children[i].pid] :
                 i \in 1..Len(children)}

\* Supervisor::get_exit_code. An id found in the ring is answered at once;
\* otherwise, while the child named by the pid still runs, the blocking waitpid
\* has not returned and the call is not complete.
SupGetExitCode ==
    /\ SupUp /\ Returned
    /\ \E c \in ProbeChildIds :
          /\ \/ ExitInfoGet(exit_info, c.id).found
             \/ \A i \in 1..Len(children) :
                   children[i].pid = c.pid => children[i].st # "alive"
          /\ \E g \in {GetExitCode(SupNow, children, c.id, c.pid)} :
             /\ SetSup(g.sup)
             /\ children' = g.cs
             /\ exits' = exits \o g.recs
             /\ last_get' = [called |-> TRUE, id |-> c.id, pid |-> c.pid,
                             ok |-> g.ok, code |-> g.code]
             /\ last_kill' = NoKill
    /\ UNCHANGED <<issued, sup_state, drop_log, last_spawn>>
    /\ UNCHANGED <<pidVars, srvVars, strVars, cliVars, ioVars>>

\* Supervisor::kill, called with a ChildId the supervisor issued.
SupKill ==
    /\ SupUp /\ Returned
    /\ \E i \in 1..Len(children), fate \in KillFates, early \in BOOLEAN :
          LET c == children[i] IN
          \E k \in {Kill(SupNow, children, c.id, c.pid, fate, early)} :
              /\ (\E j \in Target(children, c.pid) : children[j].st = "alive")
                    \/ fate = "term"
              /\ fate \in {"term", "natural"} \/ early
              /\ SetSup(k.sup)
              /\ children' = k.cs
              /\ exits' = exits \o k.recs
              /\ last_kill' = [called |-> TRUE, id |-> c.id, pid |-> c.pid,
                               ok |-> k.ok, code |-> k.code,
                               running |-> k.running, sigterm |-> k.sigterm,
                               sigkill |-> k.sigkill, in_window |-> k.in_window]
              /\ last_get' = NoGet
    /\ UNCHANGED <<issued, sup_state, drop_log, last_spawn>>
    /\ UNCHANGED <<pidVars, srvVars, strVars, cliVars, ioVars>>

\* kill as Drop calls it on a ChildId taken from running_children: the child
\* dies of SIGTERM or outlives it (a child that exits by itself meanwhile is a
\* child that had exited just before), or "wait_error": the child outlives the
\* 2 s, SIGKILL is sent and the blocking waitpid returns an error other than
\* ECHILD, which wait passes on (`Err(e) => bail!(e)`) and kill returns
\* with `?`.
DropFates == {"term", "survives", "wait_error"}
KillAtDrop(sup, cs, id, pid, fate) ==
    IF fate = "wait_error"
    THEN [ok |-> FALSE, sup |-> sup, cs |-> Terminate(cs, pid, SigKill),
          recs |-> <<>>]
    ELSE LET k == Kill(sup, cs, id, pid, fate, TRUE) IN
         [ok |-> k.ok, sup |-> k.sup, cs |-> k.cs, recs |-> k.recs]

\* A mutation of DropKill: after a kill has failed the remaining children are
\* passed over, as if the error were propagated.
DropKillUntilError(d, e, fate) ==
    IF \E n \in 1..Len(d.log) : ~d.log[n].ok THEN d
    ELSE LET k == KillAtDrop(d.sup, d.cs, e.id, e.pid, fate) IN
         [sup |-> k.sup, cs |-> k.cs, recs |-> d.recs \o k.recs,
          log |-> Append(d.log, [id |-> e.id, pid |-> e.pid, ok |-> k.ok])]

\* The body of the loop in Drop: `if let Err(e) = self.kill(id) { eprintln! }`.
DropKill(d, e, fate) ==
    LET k == KillAtDrop(d.sup, d.cs, e.id, e.pid, fate) IN
    [sup |-> k.sup, cs |-> k.cs, recs |-> d.recs \o k.recs,
     log |-> Append(d.log, [id |-> e.id, pid |-> e.pid, ok |-> k.ok])]

\* `for id in child_ids` over the snapshot `order` of running_children.
RECURSIVE DropLoop(_, _, _, _)
DropLoop(d, order, fates, n) ==
    IF n > Len(order) THEN d
    ELSE DropLoop(DropKill(d, order[n], fates[n]), order, fates, n + 1)

\* The orders in which HashMap::iter may yield the entries of the map.
MapOrders(m) ==
    {o \in [1..Cardinality(m) -> m] :
        \A a, b \in 1..Cardinality(m) : a # b => o[a] # o[b]}

\* impl Drop for Supervisor: the server shuts down, or unwinds from a panic.
SupDrop ==
    /\ sup_state \in {"up", "panicked"} /\ Returned
    /\ \E order \in MapOrders(running_children),
          fates \in [1..Cardinality(running_children) -> DropFates] :
          /\ \A n \in 1..Len(order) :
                \/ fates[n] = "term"
                \/ \E j \in Target(children, order[n].pid) : children[j].st = "alive"
          /\ \E d \in {DropLoop([sup |-> SupNow, cs |-> children, recs |-> <<>>,
                                 log |-> <<>>], order, fates, 1)} :
                /\ SetSup(d.sup)
                /\ children' = d.cs
                /\ exits' = exits \o d.recs
                /\ drop_log' = d.log
    /\ sup_state' = "dropped"
    /\ UNCHANGED <<issued, last_get, last_kill, last_spawn>>
    /\ UNCHANGED <<pidVars, srvVars, strVars, cliVars, ioVars>>

\* get_exit_code or kill returns: the caller has its result.
SupReturn ==
    /\ ~Returned
    /\ last_get' = NoGet
    /\ last_kill' = NoKill
    /\ last_spawn' = NoSpawn
    /\ UNCHANGED <<next_child_id, running_children, exit_info, children, issued,
                   exits, sup_state, drop_log>>
    /\ UNCHANGED <<pidVars, srvVars, strVars, cliVars, ioVars>>

\* The calls of Interpreter::spawn that can fail in the server process: the
\* PTY allocation and the fork.
SpawnErrors == {"posix_openpt", "grantpt", "unlockpt", "ptsname", "fork"}

\* A mutation of SpawnInterpreterSup: the seq is taken before the interpreter
\* is spawned.
SpawnInterpreterEager(sup, res) ==
    IF res \in SpawnErrors
    THEN [ok |-> FALSE, id |-> 0,
          sup |-> [sup EXCEPT !.next_child_id = U32WrappingInc(@)]]
    ELSE LET b == SpawnBookkeeping(sup, res) IN
         [ok |-> TRUE, id |-> b.id, sup |-> b.sup]

\* Supervisor::spawn_interpreter: `Interpreter::spawn(prelude_code)?` comes
\* first; res is the error it returned or the pid of the child.
SpawnInterpreterSup(sup, res) ==
    IF res \in SpawnErrors
    THEN [ok |-> FALSE, id |-> 0, sup |-> sup]
    ELSE LET b == SpawnBookkeeping(sup, res) IN
         [ok |-> TRUE, id |-> b.id, sup |-> b.sup]

\* spawn_interpreter returning a spawn error.
SupSpawnFails ==
    /\ SupUp /\ Returned
    /\ \E res \in SpawnErrors :
          \E r \in {SpawnInterpreterSup(SupNow, res)} :
              /\ SetSup(r.sup)
              /\ last_spawn' = [called |-> TRUE, ok |-> r.ok, error |-> res]
    /\ UNCHANGED <<children, issued, exits, sup_state, last_get, last_kill,
                   drop_log>>
    /\ UNCHANGED <<pidVars, srvVars, strVars, cliVars, ioVars>>

\* Spawns that succeed and spawns that fail, with children exiting.
SpawnNext ==
    \/ SupSpawn
    \/ SupSpawnFails
    \/ ChildDies
    \/ HandleSigchld
    \/ SupReturn


SupNext ==
    \/ SupSpawn
    \/ ChildDies
    \/ HandleSigchld
    \/ SupGetExitCode
    \/ SupKill
    \/ SupReturn
    \/ SupDrop

(***************************************************************************)
(*        ChildId text form: supervisor.rs and interpreter.rs              *)
(***************************************************************************)

\* A text is a sequence of one-character strings. MaxLen bounds the texts given
\* to from_str, drawn over Alphabet.
MaxLen == 6
Alphabet == {"(", ")", ",", "1", "+", "-", "a"}
Texts == UNION {[1..n -> Alphabet] : n \in 0..MaxLen}

Digits == {"0", "1", "2", "3", "4", "5", "6", "7", "8", "9"}
DigitChars == <<"0", "1", "2", "3", "4", "5", "6", "7", "8", "9">>
DigitChar(d) == DigitChars[d + 1]
DigitVal(c) == CHOOSE d \in 0..9 : DigitChars[d + 1] = c

\* i32::MIN, and a 32-bit magnitude as its two 16-bit halves (hi * 65536 + lo),
\* so that no intermediate value leaves the range of the integers at hand.
I32Min == (-2147483647) - 1
U32Halves(x) ==
    IF x >= 0 THEN [hi |-> x \div 65536, lo |-> x % 65536]
    ELSE [hi |-> 65535 - ((-(x + 1)) \div 65536),
          lo |-> 65535 - ((-(x + 1)) % 65536)]
U32OfHalves(h) ==
    IF h.hi < 32768 THEN h.hi * 65536 + h.lo
    ELSE (h.hi - 65536) * 65536 + h.lo
\* |p| of an i32
I32Magnitude(p) ==
    IF p >= 0 THEN U32Halves(p)
    ELSE LET m == U32Halves(-(p + 1)) IN
         IF m.lo = 65535 THEN [hi |-> m.hi + 1, lo |-> 0]
         ELSE [hi |-> m.hi, lo |-> m.lo + 1]

\* The decimal digits `{}` writes for an unsigned value.
RECURSIVE DecimalOf(_)
DecimalOf(h) ==
    LET t == (h.hi % 10) * 65536 + h.lo
        q == [hi |-> h.hi \div 10, lo |-> t \div 10]
    IN  IF q.hi = 0 /\ q.lo = 0 THEN <<DigitChar(t % 10)>>
        ELSE DecimalOf(q) \o <<DigitChar(t % 10)>>

\* Display for u32 and for i32 (Pid::as_raw())
DisplayU32(x) == DecimalOf(U32Halves(x))
DisplayI32(p) ==
    IF p < 0 THEN <<"-">> \o DecimalOf(I32Magnitude(p))
    ELSE DecimalOf(I32Magnitude(p))

\* Display as it would be with the two fields written in the other order.
DisplayPidFirst(c) ==
    <<"(">> \o DisplayI32(c.pid) \o <<",">> \o DisplayU32(c.id) \o <<")">>

\* impl fmt::Display for ChildId: write!(f, "({},{})", self.id, self.pid.as_raw())
Display(c) ==
    <<"(">> \o DisplayU32(c.id) \o <<",">> \o DisplayI32(c.pid) \o <<")">>

\* The digit loop of str::parse for a 32-bit integer: a non-digit is an error,
\* and so is a magnitude of 2^32 or more.
RECURSIVE AccDigits(_, _, _)
AccDigits(s, k, h) ==
    IF k > Len(s) THEN [ok |-> TRUE, h |-> h]
    ELSE IF s[k] \notin Digits THEN [ok |-> FALSE, h |-> h]
    ELSE LET lo10 == h.lo * 10 + DigitVal(s[k])
             hi10 == h.hi * 10 + lo10 \div 65536
         IN  IF hi10 >= 65536 THEN [ok |-> FALSE, h |-> h]
             ELSE AccDigits(s, k + 1, [hi |-> hi10, lo |-> lo10 % 65536])

\* The sign handling of str::parse: the empty text and a lone sign are errors;
\* one leading '+' is dropped, and for a signed type one leading '-'.
SignOf(s, signed) ==
    IF s # <<>> /\ s[1] = "-" /\ signed THEN "-"
    ELSE IF s # <<>> /\ s[1] = "+" THEN "+"
    ELSE ""
Unsigned(s, signed) == IF SignOf(s, signed) = "" THEN s ELSE Tail(s)
ParseFail == [ok |-> FALSE, v |-> 0]

\* x.parse::<u32>()
ParseU32(s) ==
    LET a == AccDigits(Unsigned(s, FALSE), 1, [hi |-> 0, lo |-> 0]) IN
    IF s = <<>> \/ s = <<"+">> \/ s = <<"-">> \/ ~a.ok THEN ParseFail
    ELSE [ok |-> TRUE, v |-> U32OfHalves(a.h)]

\* y.parse::<libc::pid_t>(): an i32, from -2^31 to 2^31 - 1
ParseI32(s) ==
    LET a == AccDigits(Unsigned(s, TRUE), 1, [hi |-> 0, lo |-> 0])
        neg == SignOf(s, TRUE) = "-"
    IN  IF s = <<>> \/ s = <<"+">> \/ s = <<"-">> \/ ~a.ok THEN ParseFail
        ELSE IF a.h.hi < 32768
        THEN [ok |-> TRUE,
              v |-> IF neg THEN -(a.h.hi * 65536 + a.h.lo)
                    ELSE a.h.hi * 65536 + a.h.lo]
        ELSE IF neg /\ a.h.hi = 32768 /\ a.h.lo = 0
        THEN [ok |-> TRUE, v |-> I32Min]
        ELSE ParseFail

\* str::split_once(','): the index of the first comma, 0 when there is none.
FirstComma(s) ==
    IF \E i \in 1..Len(s) : s[i] = ","
    THEN CHOOSE i \in 1..Len(s) : s[i] = "," /\ \A j \in 1..(i - 1) : s[j] # ","
    ELSE 0

NoChildId == [id |-> 0, pid |-> 0]
ParseChildIdError == [ok |-> FALSE, id |-> 0, pid |-> 0]

\* impl FromStr for ChildId
FromStr(s) ==
    IF s = <<>> \/ s[1] # "(" THEN ParseChildIdError
    ELSE IF Len(s) < 2 \/ s[Len(s)] # ")" THEN ParseChildIdError
    ELSE LET inner == SubSeq(s, 2, Len(s) - 1)
             c == FirstComma(inner)
             id == ParseU32(SubSeq(inner, 1, c - 1))
             pid == ParseI32(SubSeq(inner, c + 1, Len(inner)))
         IN  IF c = 0 \/ ~id.ok \/ ~pid.ok THEN ParseChildIdError
             ELSE [ok |-> TRUE, id |-> id.v, pid |-> pid.v]

\* ChildIds over the whole range: seq a u32 (as its 32-bit pattern), pid an i32.
SampleSeqs == {0, 1, 2, 9, 10, 65535, 65536, 2147483647, I32Min, U32Max}
SamplePids == {I32Min, -1, 0, 1, 10, 81581, 2147483647}
SampleChildIds == {[id |-> i, pid |-> p] : i \in SampleSeqs, p \in SamplePids}

StrIdle ==
    /\ cid = NoChildId
    /\ cid_text = <<>>
    /\ parsed = ParseChildIdError
    /\ cid_pc = "idle"

\* format!("{}", child_id)
DisplayChildId ==
    /\ cid_pc = "value"
    /\ cid_text' = Display(cid)
    /\ cid_pc' = "shown"
    /\ UNCHANGED <<cid, parsed>>
    /\ UNCHANGED <<pidVars, srvVars, supVars, cliVars, ioVars>>

\* ChildId::from_str(&text)
ParseChildId ==
    /\ cid_pc \in {"shown", "text"}
    /\ parsed' = FromStr(cid_text)
    /\ cid_pc' = IF cid_pc = "shown" THEN "reparsed" ELSE "parsed"
    /\ UNCHANGED <<cid, cid_text>>
    /\ UNCHANGED <<pidVars, srvVars, supVars, cliVars, ioVars>>

(***************************************************************************)
(*                    Client run invocation: cli.rs                        *)
(***************************************************************************)

MaxClients == 2
Clients == 1..MaxClients

\* The exit codes a taken interpreter ends with: success, failure, and death
\* by SIGTERM as Supervisor::handle_sigchld encodes it.
ChildExitCodes == {0, 1, 143}

NoExit == -1
\* The exit status of the process when main returns Err.
ErrExit == 1

NoText == <<>>
OkPrefix == "OK "
ExitcodePrefix == "EXITCODE "
NoInterpreterError == <<"ERROR: no interpreter">>
UnknownChildError == <<"ERROR: unknown child">>

\* A message body with its leading keyword removed; NoText when the keyword
\* is not there.
StripPrefix(t, prefix) ==
    IF t # <<>> /\ Head(t) = prefix THEN Tail(t) ELSE NoText

HasPrefix(t, prefix) == t # <<>> /\ Head(t) = prefix

\* The server's answer to TAKE for the hot spare `id`.
TakeAnswer(id) == <<OkPrefix>> \o Display(id)

\* The descriptors in the ancillary block of a reply: the control end, the PTY
\* master, and any further one.
MaxFds == 3
ControlFd == "control"
PtyFd == "pty"
ExtraFd == "extra"
NoFd == "none"
AncillaryFds(n) ==
    [i \in 1..n |-> IF i = 1 THEN ControlFd ELSE IF i = 2 THEN PtyFd ELSE ExtraFd]

NoHandle ==
    [ok |-> FALSE, panic |-> FALSE, id |-> NoChildId, control |-> NoFd,
     pty |-> NoFd, error |-> NoText, supervised |-> FALSE, adopted |-> {},
     closed |-> {}]

\* A mutation of FromRaw: fds[1] is adopted as the control stream and fds[0] as
\* the PTY master.
FromRawSwapped(msg, fds) ==
    LET p == FromStr(msg) IN
    IF fds = <<>> THEN [NoHandle EXCEPT !.panic = TRUE]
    ELSE IF ~p.ok THEN [NoHandle EXCEPT !.error = <<"invalid ChildId">>,
                                        !.adopted = {fds[1]}, !.closed = {fds[1]}]
    ELSE IF Len(fds) < 2 THEN [NoHandle EXCEPT !.panic = TRUE,
                                               !.adopted = {fds[1]},
                                               !.closed = {fds[1]}]
    ELSE [NoHandle EXCEPT !.ok = TRUE, !.id = [id |-> p.id, pid |-> p.pid],
                          !.control = fds[2], !.pty = fds[1],
                          !.adopted = {fds[1], fds[2]}]

\* A mutation of FromRaw: the handle built is marked supervised.
FromRawSupervised(msg, fds) ==
    LET p == FromStr(msg) IN
    IF fds = <<>> THEN [NoHandle EXCEPT !.panic = TRUE]
    ELSE IF ~p.ok THEN [NoHandle EXCEPT !.error = <<"invalid ChildId">>,
                                        !.adopted = {fds[1]}, !.closed = {fds[1]}]
    ELSE IF Len(fds) < 2 THEN [NoHandle EXCEPT !.panic = TRUE,
                                               !.adopted = {fds[1]},
                                               !.closed = {fds[1]}]
    ELSE [NoHandle EXCEPT !.ok = TRUE, !.id = [id |-> p.id, pid |-> p.pid],
                          !.control = fds[1], !.pty = fds[2],
                          !.supervised = TRUE, !.adopted = {fds[1], fds[2]}]

\* Interpreter::from_raw: fds[0] is adopted as the control stream (an index out
\* of bounds panics), the id is parsed from the message text with `?`, fds[1]
\* is adopted as the PTY master, supervised is false.  `adopted` are the
\* descriptors from_raw has taken ownership of by the time it leaves, `closed`
\* those closed when the stream built at the first line is dropped on the way
\* out.
FromRaw(msg, fds) ==
    LET p == FromStr(msg) IN
    IF fds = <<>> THEN [NoHandle EXCEPT !.panic = TRUE]
    ELSE IF ~p.ok THEN [NoHandle EXCEPT !.error = <<"invalid ChildId">>,
                                        !.adopted = {fds[1]}, !.closed = {fds[1]}]
    ELSE IF Len(fds) < 2 THEN [NoHandle EXCEPT !.panic = TRUE,
                                               !.adopted = {fds[1]},
                                               !.closed = {fds[1]}]
    ELSE [NoHandle EXCEPT !.ok = TRUE, !.id = [id |-> p.id, pid |-> p.pid],
                          !.control = fds[1], !.pty = fds[2],
                          !.supervised = FALSE, !.adopted = {fds[1], fds[2]}]

\* take_interpreter(): with fewer than two descriptors the body is the error;
\* with exactly two the body `OK <id>` is parsed and the descriptors adopted.
TakeInterpreter(body, fds) ==
    IF Len(fds) # 2 \/ ~HasPrefix(body, OkPrefix)
    THEN [NoHandle EXCEPT !.error = body]
    ELSE FromRaw(StripPrefix(body, OkPrefix), fds)

\* A mutation of ExitcodeArg: only the pid of the handle is passed on.
ExitcodeArgPidOnly(interp) == [id |-> 0, pid |-> interp.pid]

\* interpreter.id(), the argument main passes to get_exit_code
ExitcodeArg(interp) == interp

\* get_exit_code(id): the request text
ExitcodeRequest(id) == <<ExitcodePrefix>> \o Display(id)

\* The server's answers to `EXITCODE <id>` once the child has exited: the
\* table's `OK <code>`, or nothing at all (handle_exitcode_request of
\* server.rs writes no response).
ExitcodeAnswers(req, exited) ==
    LET p == FromStr(StripPrefix(req, ExitcodePrefix))
        known == {e \in exited : p.ok /\ e.id = [id |-> p.id, pid |-> p.pid]}
    IN  (IF known = {} THEN {UnknownChildError}
         ELSE {<<OkPrefix>> \o DisplayI32(e.code) : e \in known})
        \cup {HandleExitcodeRequest(ServerNow, NoPid).writes}

\* get_exit_code(id): `OK <n>` parsed
ParseExitcodeAnswer(answer) ==
    IF HasPrefix(answer, OkPrefix) THEN ParseI32(StripPrefix(answer, OkPrefix))
    ELSE ParseFail

\* The exit status of the process for the value main returned.
ProcessExit(result) == IF result.ok THEN result.v ELSE ErrExit

NoClient ==
    [pc |-> "start", interp |-> NoChildId, took |-> NoText, nfds |-> 0,
     control |-> NoFd, pty |-> NoFd, error |-> NoText,
     child |-> "none", proxied |-> FALSE, req |-> NoText,
     answer |-> NoText, result |-> ParseFail, exit |-> NoExit]

Failed(p) == [p EXCEPT !.pc = "exited", !.exit = ErrExit]

\* ---- the interpreter handle and its control channel (interpreter.rs) ----

MaxHandles == 3
Handles == 1..MaxHandles

\* What is written on a control channel: the quoted PY_STOP_SUPERVISION line,
\* the quoted instructions, and the shutdown of the stream.  Each entry keeps
\* the supervised flag of the handle that wrote it.
StopLine == "stop"
InstructionsLine == "instructions"
ShutdownMark == "shutdown"
Wrote(line, h) == [line |-> line, supervised |-> h.supervised]

\* Interpreter::new: supervised is true.
NewHandle(i) ==
    [id |-> [id |-> i, pid |-> i], supervised |-> TRUE]

UnsuperviseOutcomes == {"write_fails", "read_fails", "bad_reply", "ok"}

\* A mutation of Unsupervise: the flag is cleared without the line being
\* written.
UnsuperviseSilent(h, chan, outcome) ==
    IF outcome = "write_fails" THEN [ok |-> FALSE, h |-> h, chan |-> chan]
    ELSE IF outcome = "ok"
    THEN [ok |-> TRUE, h |-> [h EXCEPT !.supervised = FALSE], chan |-> chan]
    ELSE [ok |-> FALSE, h |-> h, chan |-> chan]

\* Interpreter::unsupervise: write the stop line, read one line back, and only
\* for the answer `OK` clear the flag.
Unsupervise(h, chan, outcome) ==
    IF outcome = "write_fails" THEN [ok |-> FALSE, h |-> h, chan |-> chan]
    ELSE IF outcome = "ok"
    THEN [ok |-> TRUE, h |-> [h EXCEPT !.supervised = FALSE],
          chan |-> Append(chan, Wrote(StopLine, h))]
    ELSE [ok |-> FALSE, h |-> h, chan |-> Append(chan, Wrote(StopLine, h))]

\* Interpreter::to_raw: panics on a supervised handle; otherwise the id text
\* and the descriptors (control, pty master).
ToRaw(h) ==
    IF h.supervised THEN [panic |-> TRUE, msg |-> NoText, fds |-> <<>>]
    ELSE [panic |-> FALSE, msg |-> Display(h.id), fds |-> <<ControlFd, PtyFd>>]

RunOutcomes == {"write_fails", "shutdown_fails", "ok"}

\* Interpreter::run_instructions: panics on a supervised handle; writes the
\* quoted instructions and shuts the stream down, leaving at the first error.
RunInstructions(h, chan, outcome) ==
    IF h.supervised THEN [ok |-> FALSE, panic |-> TRUE, chan |-> chan]
    ELSE IF outcome = "write_fails"
    THEN [ok |-> FALSE, panic |-> FALSE, chan |-> chan]
    ELSE IF outcome = "shutdown_fails"
    THEN [ok |-> FALSE, panic |-> FALSE,
          chan |-> Append(chan, Wrote(InstructionsLine, h))]
    ELSE [ok |-> TRUE, panic |-> FALSE,
          chan |-> Append(Append(chan, Wrote(InstructionsLine, h)),
                          Wrote(ShutdownMark, h))]

\* An interpreter: where its handle is ("unborn", "slot" of the server,
\* "sent" to a client, held by the "client", "dropped", or the holder
\* "panicked"), the server's handle, the handle the client rebuilt, what was
\* written on the channel, the flag seen by the to_raw calls that returned,
\* and the client's position.
NoInterpreter ==
    [loc |-> "unborn", server |-> NewHandle(0), client |-> NoHandle,
     chan |-> <<>>, raw |-> <<>>, pc |-> "none"]
IhIdle == ih = [i \in Handles |-> NoInterpreter]

\* The supervisor spawns the hot spare: the first one, then one after each
\* hand-off.
ChanSpawn(i) ==
    /\ ih[i].loc = "unborn"
    /\ \A j \in Handles : j < i => ih[j].loc \notin {"unborn", "slot"}
    /\ ih' = [ih EXCEPT ![i].loc = "slot", ![i].server = NewHandle(i)]
    /\ UNCHANGED <<cli, pidVars, srvVars, supVars, strVars, ioVars>>

\* The TAKE handler: the spare leaves the slot, is unsupervised, serialised
\* with to_raw and sent; an error at any step returns with `?` and the
\* handle is dropped.
ChanTake(i) ==
    /\ ih[i].loc = "slot"
    /\ \E o \in UnsuperviseOutcomes, sent \in BOOLEAN :
        \E u \in {Unsupervise(ih[i].server, ih[i].chan, o)} :
            /\ sent => u.ok
            /\ ih' = [ih EXCEPT
                        ![i].server = u.h,
                        ![i].chan = u.chan,
                        ![i].raw = IF u.ok /\ ~ToRaw(u.h).panic
                                   THEN Append(@, u.h.supervised) ELSE @,
                        ![i].loc = IF ~u.ok THEN "dropped"
                                   ELSE IF ToRaw(u.h).panic THEN "panicked"
                                   ELSE IF sent THEN "sent" ELSE "dropped"]
    /\ UNCHANGED <<cli, pidVars, srvVars, supVars, strVars, ioVars>>

\* A message body cut short of its last character, as a receive buffer
\* smaller than the message leaves it.
Truncated(msg) == SubSeq(msg, 1, Len(msg) - 1)

\* take_interpreter() in the client: the handle is rebuilt from the message
\* body, whole or cut short, and the two descriptors.
ChanReceive(i) ==
    /\ ih[i].loc = "sent"
    /\ \E cut \in BOOLEAN :
       \E r \in {FromRaw(IF cut THEN Truncated(ToRaw(ih[i].server).msg)
                         ELSE ToRaw(ih[i].server).msg,
                         ToRaw(ih[i].server).fds)} :
        ih' = [ih EXCEPT ![i].client = r,
                         ![i].loc = IF r.ok THEN "client" ELSE "dropped",
                         ![i].pc = IF r.ok THEN "taken" ELSE "exited"]
    /\ UNCHANGED <<cli, pidVars, srvVars, supVars, strVars, ioVars>>

\* main, Args::Run: TerminalModeGuard::new and generate_instructions may fail
\* (`?`, the handle is dropped); then interpreter.run_instructions.
ChanRunInstructions(i) ==
    /\ ih[i].loc = "client" /\ ih[i].pc = "taken"
    /\ \E guard_ok \in BOOLEAN, o \in RunOutcomes :
        \E r \in {RunInstructions(ih[i].client, ih[i].chan, o)} :
            /\ ~guard_ok => o = "ok"
            /\ ih' = IF ~guard_ok
                     THEN [ih EXCEPT ![i].loc = "dropped", ![i].pc = "exited"]
                     ELSE [ih EXCEPT
                             ![i].chan = r.chan,
                             ![i].loc = IF r.panic THEN "panicked"
                                        ELSE IF r.ok THEN "client" ELSE "dropped",
                             ![i].pc = IF r.ok THEN "instructed" ELSE "exited"]
    /\ UNCHANGED <<cli, pidVars, srvVars, supVars, strVars, ioVars>>

\* main returns: the handle is dropped.
ChanClientExit(i) ==
    /\ ih[i].loc = "client" /\ ih[i].pc = "instructed"
    /\ ih' = [ih EXCEPT ![i].loc = "dropped", ![i].pc = "exited"]
    /\ UNCHANGED <<cli, pidVars, srvVars, supVars, strVars, ioVars>>

ChanNext ==
    \E i \in Handles :
        \/ ChanSpawn(i)
        \/ ChanTake(i)
        \/ ChanReceive(i)
        \/ ChanRunInstructions(i)
        \/ ChanClientExit(i)

CliStart == cli = [proc |-> [c \in Clients |-> NoClient],
                   next_id |-> 1, exits |-> {}]
CliInit == CliStart /\ IhIdle

\* let mut interpreter = take_interpreter()?; the reply is `OK <id>` with the
\* descriptors of the ancillary block, or an error text with none.
CliTake(c) ==
    /\ cli.proc[c].pc = "start"
    /\ \E spare \in BOOLEAN, pid \in ChildPids, n \in 0..MaxFds :
        LET id == [id |-> cli.next_id, pid |-> pid]
            body == IF spare THEN TakeAnswer(id) ELSE NoInterpreterError
            p == [cli.proc[c] EXCEPT !.took = body, !.nfds = n]
        IN  /\ spare \/ n = 0
            /\ \E t \in {TakeInterpreter(body, AncillaryFds(n))} :
                cli' =
                  [cli EXCEPT
                     !.proc[c] =
                        IF t.ok
                        THEN [p EXCEPT !.pc = "taken", !.interp = t.id,
                                       !.control = t.control, !.pty = t.pty,
                                       !.child = "running"]
                        ELSE IF t.panic THEN [p EXCEPT !.pc = "crashed"]
                        ELSE Failed([p EXCEPT !.error = t.error]),
                     !.next_id = IF spare THEN cli.next_id + 1 ELSE @]
    /\ UNCHANGED <<ih, pidVars, srvVars, supVars, strVars, ioVars>>

\* interpreter.run_instructions(&instructions)?;
CliRunInstructions(c) ==
    /\ cli.proc[c].pc = "taken"
    /\ cli' = [cli EXCEPT !.proc[c].pc = "instructed"]
    /\ UNCHANGED <<ih, pidVars, srvVars, supVars, strVars, ioVars>>

\* The interpreter runs the instructions and exits; the server, its parent,
\* records the exit code under the child's id.
CliChildExits(c) ==
    /\ cli.proc[c].pc = "instructed"
    /\ cli.proc[c].child = "running"
    /\ \E code \in ChildExitCodes :
        cli' = [cli EXCEPT
                  !.proc[c].child = "exited",
                  !.exits = @ \cup {[id |-> cli.proc[c].interp,
                                     code |-> code]}]
    /\ UNCHANGED <<ih, pidVars, srvVars, supVars, strVars, ioVars>>

\* do_proxy(&terminal_mode, interpreter.take_pty_master()...)?: returns at
\* the end of the child's output, or with an error.
CliProxy(c) ==
    /\ cli.proc[c].pc = "instructed"
    /\ cli.proc[c].child = "exited"
    /\ \E ok \in BOOLEAN :
        cli' = IF ok
               THEN [cli EXCEPT !.proc[c].pc = "proxied",
                                !.proc[c].proxied = TRUE]
               ELSE [cli EXCEPT !.proc[c] = Failed(@)]
    /\ UNCHANGED <<ih, pidVars, srvVars, supVars, strVars, ioVars>>

\* let exit_code = get_exit_code(interpreter.id())?;
CliGetExitCode(c) ==
    /\ cli.proc[c].pc = "proxied"
    /\ \E req \in {ExitcodeRequest(ExitcodeArg(cli.proc[c].interp))} :
       \E answer \in ExitcodeAnswers(req, cli.exits) :
        cli' = [cli EXCEPT
                  !.proc[c].pc = "asked",
                  !.proc[c].req = req,
                  !.proc[c].answer = answer,
                  !.proc[c].result = ParseExitcodeAnswer(answer)]
    /\ UNCHANGED <<ih, pidVars, srvVars, supVars, strVars, ioVars>>

\* Ok(exit_code), or the error of get_exit_code through `?`
CliExit(c) ==
    /\ cli.proc[c].pc = "asked"
    /\ cli' = [cli EXCEPT !.proc[c].pc = "exited",
                          !.proc[c].exit = ProcessExit(cli.proc[c].result)]
    /\ UNCHANGED <<ih, pidVars, srvVars, supVars, strVars, ioVars>>

CliNext ==
    \E c \in Clients :
        \/ CliTake(c)
        \/ CliRunInstructions(c)
        \/ CliChildExits(c)
        \/ CliProxy(c)
        \/ CliGetExitCode(c)
        \/ CliExit(c)

(***************************************************************************)
(*                    Terminal proxy: hsclient/proxy.rs                    *)
(***************************************************************************)

\* The reads of standard input after its EOF, and the chunks forwarded each
\* way, that are counted (the counts saturate there).
MaxReads == 2
MaxChunks == 2
MaxCloses == 2

\* The caller's terminal modes at entry, and what set_raw_mode leaves.
Cooked == "cooked"
NoEcho == "noecho"
Raw == "raw"
CallerModes == {Cooked, NoEcho}

\* The `?` of the forwarding loop and of the setup that can return an error.
ProxyErrors ==
    {"none", "poll", "sigread", "ptyread", "stdout", "stdinread", "ptywrite"}
SetupErrors == {"none", "tcgetattr", "tcsetattr", "write_all"}

\* do_proxy has not been called.
ProxyEntry ==
    [pc |-> "entry", termios |-> Cooked, original |-> Cooked,
     stdin |-> "open", child |-> "running", pty_open |-> TRUE,
     stdin_eof |-> FALSE, reads_after_eof |-> 0, to_stdout |-> 0,
     to_pty |-> 0, odd |-> FALSE, pty_closes |-> 0, used_closed |-> FALSE]

PxIdle == px = ProxyEntry

\* set_raw_mode: tcgetattr, then tcsetattr of the raw flags; the snapshot is
\* returned.
SetRawMode(p, err) ==
    IF err \in {"tcgetattr", "tcsetattr"} THEN [ok |-> FALSE, p |-> p]
    ELSE [ok |-> TRUE, p |-> [p EXCEPT !.original = p.termios, !.termios = Raw]]

\* restore_mode: tcsetattr of the snapshot (its result is ignored).
RestoreMode(p) == [p EXCEPT !.termios = p.original]

Saturating(n, max) == IF n < max THEN n + 1 ELSE max

\* pty_file, the File made from the borrowed PTY descriptor with from_raw_fd,
\* goes out of scope when do_proxy returns: its drop closes the descriptor.
DropPtyFile(p) ==
    IF p.pc \in {"returned", "failed"}
    THEN [p EXCEPT !.pty_closes = Saturating(@, MaxCloses)]
    ELSE p

\* do_proxy up to the loop: raw mode, window size (errors printed), SIGWINCH
\* set-up, the code written to the PTY with `?`.
ProxySetup ==
    /\ px.pc = "entry"
    /\ \E err \in SetupErrors :
          LET r == SetRawMode(px, err) IN
          px' = IF ~r.ok THEN [px EXCEPT !.pc = "failed"]
                ELSE IF err = "write_all"
                THEN DropPtyFile([r.p EXCEPT !.pc = "failed"])
                ELSE [r.p EXCEPT !.pc = "loop"]
    /\ UNCHANGED <<backlog, waitpid_on, sk, auxVars>>
    /\ UNCHANGED <<pidVars, srvVars, supVars, strVars, cliVars>>

\* The environment: the caller's standard input reaches its end.
ProxyStdinCloses ==
    /\ px.pc \in {"entry", "loop"}
    /\ px.stdin = "open"
    /\ px' = [px EXCEPT !.stdin = "eof"]
    /\ UNCHANGED <<backlog, waitpid_on, sk, auxVars>>
    /\ UNCHANGED <<pidVars, srvVars, supVars, strVars, cliVars>>

\* The environment: the interpreter exits; with its output drained the PTY
\* master is at EOF.
ProxyChildExits ==
    /\ px.pc \in {"entry", "loop"}
    /\ px.child = "running"
    /\ px' = [px EXCEPT !.child = "exited"]
    /\ UNCHANGED <<backlog, waitpid_on, sk, auxVars>>
    /\ UNCHANGED <<pidVars, srvVars, supVars, strVars, cliVars>>

\* The signalfd arm: read the notification, re-sync the window size.
SignalArm(p, ready, err) ==
    IF ready /\ err = "sigread" THEN [p EXCEPT !.pc = "failed"] ELSE p

\* The PTY arm: a zero-byte read breaks out of the loop (restore_mode, Ok);
\* bytes go to standard output.
PtyArm(p, ready, err) ==
    IF p.pc # "loop" \/ ~ready THEN p
    ELSE IF err = "ptyread" THEN [p EXCEPT !.pc = "failed"]
    ELSE IF p.child = "exited" THEN [RestoreMode(p) EXCEPT !.pc = "returned"]
    ELSE IF err = "stdout" THEN [p EXCEPT !.pc = "failed"]
    ELSE [p EXCEPT !.to_stdout = Saturating(@, MaxChunks)]

\* The standard-input arm: on a zero-byte read the PTY descriptor is closed
\* (`// TODO: no longer read from stdin`); bytes are written to the PTY.
StdinArm(p, ready, err) ==
    IF p.pc # "loop" \/ ~ready THEN p
    ELSE IF err = "stdinread" THEN [p EXCEPT !.pc = "failed"]
    ELSE IF p.stdin = "eof"
    THEN [p EXCEPT !.pty_open = FALSE, !.stdin_eof = TRUE,
                   !.pty_closes = Saturating(@, MaxCloses),
                   !.reads_after_eof =
                       IF p.stdin_eof THEN Saturating(@, MaxReads) ELSE @]
    ELSE IF err = "ptywrite" \/ ~p.pty_open THEN [p EXCEPT !.pc = "failed"]
    ELSE [p EXCEPT !.to_pty = Saturating(@, MaxChunks)]

\* What poll reports: POLLIN on the signalfd for a pending SIGWINCH, on the
\* PTY master for output or EOF (none on a closed descriptor), on standard
\* input for bytes or EOF.
PtyReady(p, output) == p.pty_open /\ (p.child = "exited" \/ output)
StdinReady(p, input) == p.stdin = "eof" \/ input

\* One iteration of the forwarding loop: poll, then the three arms in the
\* order signalfd, PTY, standard input. `odd` tells odd iterations from even.
ProxyIteration ==
    /\ px.pc = "loop"
    /\ \E winch \in BOOLEAN, output \in BOOLEAN, input \in BOOLEAN,
          err \in ProxyErrors :
          LET p0 == [px EXCEPT !.odd = ~@,
                                 \* the PTY descriptor is in the array polled
                                 !.used_closed = @ \/ ~px.pty_open]
              p1 == SignalArm(p0, winch, err)
              p2 == PtyArm(p1, PtyReady(px, output), err)
              p3 == StdinArm(p2, StdinReady(px, input), err)
          IN  /\ err = "poll" \/ winch \/ PtyReady(px, output)
                    \/ StdinReady(px, input)
              /\ px' = DropPtyFile(IF err = "poll"
                                    THEN [p0 EXCEPT !.pc = "failed"] ELSE p3)
    /\ UNCHANGED <<backlog, waitpid_on, sk, auxVars>>
    /\ UNCHANGED <<pidVars, srvVars, supVars, strVars, cliVars>>

ProxyNext ==
    \/ ProxySetup
    \/ ProxyStdinCloses
    \/ ProxyChildExits
    \/ ProxyIteration

(***************************************************************************)
(*            Descriptor passing over a stream pair (sendfd.rs)            *)
(***************************************************************************)

MaxMsg == 2
MaxSent == 2
MaxRoom == 3
MaxBuf == 3

Bytes == {"h", "w"}
Messages == UNION {[1..n -> Bytes] : n \in 0..MaxMsg}

\* The sender's descriptor table: the two ends of the pair are open, 0xff is
\* not (tests::sending_junk_fails).
LFd == 3
RFd == 4
JunkFd == 255
NoResource == "closed"
Resource(fd) == IF fd = LFd THEN "l" ELSE IF fd = RFd THEN "r" ELSE NoResource
FdLists == UNION {[1..n -> {LFd, RFd, JunkFd}] : n \in 0..MaxSent}
\* The lowest descriptor number free in the receiving process.
NextFd == 5

\* libc::CMSG_SPACE(len) on a 64-bit target: the header and the data rounded
\* up to 8 bytes; the number of descriptors a control buffer made for `room`
\* descriptors can take.
CmsgHdr == 16
CmsgAlign == 8
FdSize == 4
CmsgSpace(len) == CmsgHdr + CmsgAlign * ((len + CmsgAlign - 1) \div CmsgAlign)
FdCapacity(room) == (CmsgSpace(FdSize * room) - CmsgHdr) \div FdSize

Min(a, b) == IF a < b THEN a ELSE b

\* send_with_fd: one sendmsg with the bytes and one ScmRights block.  A
\* descriptor that is not open fails the call; a stream socket queues nothing
\* for an empty message.
SendWithFd(bs, fds) ==
    IF \E i \in 1..Len(fds) : Resource(fds[i]) = NoResource
    THEN [ok |-> FALSE, ret |-> 0, queued |-> <<>>]
    ELSE IF bs = <<>> THEN [ok |-> TRUE, ret |-> 0, queued |-> <<>>]
    ELSE [ok |-> TRUE, ret |-> Len(bs),
          queued |-> <<[bytes |-> bs,
                        res |-> [i \in 1..Len(fds) |-> Resource(fds[i])]]>>]

NoRecv ==
    [st |-> "none", n |-> 0, count |-> 0, bytes |-> <<>>, fds |-> <<>>,
     res |-> <<>>]

\* A mutation of RecvWithFd: descriptor_count is not advanced, so every
\* descriptor is stored at fds[0] and the count returned is 0.
RecvWithFdNoCount(seg, byte_room, room) ==
    LET n == Min(Len(seg.bytes), byte_room)
        k == Len(seg.res)
    IN  IF FdCapacity(room) < k THEN [NoRecv EXCEPT !.st = "err"]
        ELSE IF k > 0 /\ room = 0 THEN [NoRecv EXCEPT !.st = "panic"]
        ELSE [st |-> "ok", n |-> n, count |-> 0,
              bytes |-> SubSeq(seg.bytes, 1, n),
              fds |-> IF k = 0 THEN <<>> ELSE <<NextFd + k - 1>>,
              res |-> IF k = 0 THEN <<>> ELSE <<seg.res[k]>>]

\* recv_with_fd: one recvmsg into bs and a control buffer of
\* CMSG_SPACE(size_of_val(fds)) bytes; a control block cut short makes
\* msg.cmsgs()? fail; the descriptors are stored at fds[descriptor_count],
\* an index past the end of fds panics.  `res` is what each stored descriptor
\* refers to in the receiving process.
RecvWithFd(seg, byte_room, room) ==
    LET n == Min(Len(seg.bytes), byte_room)
        k == Len(seg.res)
    IN  IF FdCapacity(room) < k THEN [NoRecv EXCEPT !.st = "err"]
        ELSE IF k > room THEN [NoRecv EXCEPT !.st = "panic"]
        ELSE [st |-> "ok", n |-> n, count |-> k,
              bytes |-> SubSeq(seg.bytes, 1, n),
              fds |-> [i \in 1..k |-> NextFd + i - 1],
              res |-> seg.res]

SkEntry ==
    [pc |-> "start", bytes |-> <<>>, fds |-> <<>>, byte_room |-> 1,
     room |-> 0, queue |-> <<>>, send_ok |-> FALSE, send_ret |-> 0,
     recv |-> NoRecv]
SkIdle == sk = SkEntry

\* l.send_with_fd(&sent_bytes[..], &sent_fds[..])
SkSend ==
    /\ sk.pc = "start"
    /\ \E r \in {SendWithFd(sk.bytes, sk.fds)} :
        sk' = [sk EXCEPT !.pc = IF r.ok THEN "sent" ELSE "send_failed",
                         !.send_ok = r.ok, !.send_ret = r.ret,
                         !.queue = r.queued]
    /\ UNCHANGED <<px, backlog, waitpid_on, auxVars>>
    /\ UNCHANGED <<pidVars, srvVars, supVars, strVars, cliVars>>

\* r.recv_with_fd(&mut recv_bytes, &mut recv_fds): blocks while nothing is
\* queued.
SkRecv ==
    /\ sk.pc = "sent"
    /\ sk.queue # <<>>
    /\ \E r \in {RecvWithFd(Head(sk.queue), sk.byte_room, sk.room)} :
        sk' = [sk EXCEPT !.pc = "recv_done", !.recv = r,
                         !.queue =
                            IF r.n < Len(Head(sk.queue).bytes)
                            THEN <<[bytes |-> SubSeq(Head(sk.queue).bytes, r.n + 1,
                                                     Len(Head(sk.queue).bytes)),
                                    res |-> <<>>]>>
                            ELSE <<>>]
    /\ UNCHANGED <<px, backlog, waitpid_on, auxVars>>
    /\ UNCHANGED <<pidVars, srvVars, supVars, strVars, cliVars>>

FdNext == SkSend \/ SkRecv

(***************************************************************************)
(*          Readiness loop of the server (hsserver.old2.rs main)           *)
(***************************************************************************)

MaxPending == 2
MaxWakes == 2

\* Token(0), Token(1), Token(2) and the tokens from 3 on given to clients.
LISTENER == "LISTENER"
SIGCHLD_TOKEN == "SIGCHLD"
SIGTERM_TOKEN == "SIGTERM"
ClientToken == "client"

\* State at the entry of the loop: nothing registered but the three sources.
LoopEntry ==
    [pc |-> "poll", events |-> <<>>, pending |-> 0, clients |-> 0,
     connects |-> 0, wakes |-> 0, term |-> FALSE, accepted |-> 0, served |-> 0]

LoopIdle == ev = LoopEntry


\* The sources that can be reported readable: a signal can have arrived at
\* any time, the listener has a connection waiting, a client is registered.
ReadyTokens(e) ==
    {SIGCHLD_TOKEN, SIGTERM_TOKEN}
        \cup (IF e.pending > 0 THEN {LISTENER} ELSE {})
        \cup (IF e.clients > 0 THEN {ClientToken} ELSE {})

\* poll.poll(&mut events, None): at least one event, each source once, in the
\* order the kernel reports them; the loop does not sort them.
EventLists(e) ==
    {s \in UNION {[1..n -> ReadyTokens(e)] : n \in 1..Cardinality(ReadyTokens(e))} :
        \A i, j \in 1..Len(s) : i # j => s[i] # s[j]}

\* A client connects to the socket path.
LoopConnect ==
    /\ ev.pc \in {"poll", "events"}
    /\ ev.connects < MaxPending
    /\ ev' = [ev EXCEPT !.pending = @ + 1, !.connects = @ + 1]
    /\ UNCHANGED <<pidVars, srvVars, supVars, strVars, cliVars, px, backlog,
                   waitpid_on, sk, boot>>

\* poll returns with the events of one wake-up.
LoopPoll ==
    /\ ev.pc = "poll"
    /\ ev.wakes < MaxWakes
    /\ \E es \in EventLists(ev) :
        ev' = [ev EXCEPT !.pc = "events", !.events = es, !.wakes = @ + 1,
                         !.term = \E i \in 1..Len(es) : es[i] = SIGTERM_TOKEN,
                         !.accepted = 0, !.served = 0]
    /\ UNCHANGED <<pidVars, srvVars, supVars, strVars, cliVars, px, backlog,
                   waitpid_on, sk, boot>>

\* The position after one event: the next event, or poll again.
AfterEvent(e) ==
    IF Len(e.events) > 1 THEN [e EXCEPT !.events = Tail(@)]
    ELSE [e EXCEPT !.events = <<>>, !.pc = "poll"]

ClientReads == {"eof", "data", "would_block", "error"}

\* One turn of `for event in events.iter()`: the arm of the event's token.
LoopEvent ==
    /\ ev.pc = "events"
    /\ \E registerOk \in BOOLEAN, read \in ClientReads :
        LET token == Head(ev.events) IN
        ev' =
          IF token = LISTENER
          THEN \* accept until WouldBlock, registering every stream
               IF ev.pending > 0 /\ ~registerOk
               THEN [ev EXCEPT !.pc = "failed", !.pending = @ - 1,
                               !.accepted = @ + 1]
               ELSE AfterEvent([ev EXCEPT !.clients = @ + ev.pending,
                                          !.accepted = @ + ev.pending,
                                          !.pending = 0])
          ELSE IF token = SIGCHLD_TOKEN
          THEN AfterEvent(ev)
          ELSE IF token = SIGTERM_TOKEN
          THEN [ev EXCEPT !.pc = "stopped"]
          ELSE IF read = "data"
          THEN AfterEvent([ev EXCEPT !.served = @ + 1])
          ELSE IF read = "would_block"
          THEN AfterEvent(ev)
          ELSE AfterEvent([ev EXCEPT !.clients = @ - 1])
    /\ UNCHANGED <<pidVars, srvVars, supVars, strVars, cliVars, px, backlog,
                   waitpid_on, sk, boot>>

LoopNext == LoopConnect \/ LoopPoll \/ LoopEvent

(***************************************************************************)
(*      The bootstrap file shared by the forked children (supervisor.rs)   *)
(***************************************************************************)

MaxBootKids == 3

BootPreludes == {<<"p1">>}

\* SCRIPT.replace("# prelude", prelude_code.unwrap_or("")): the script with
\* the prelude's text in place of the marker; no prelude gives the empty text.
ScriptWithPrelude(pre) ==
    [script |-> "pyhotstart.py", prelude |-> IF pre.some THEN pre.text ELSE <<>>]

\* SCRIPT_PATH before any child has written it.
NoScript == [script |-> "none", prelude |-> <<>>]

\* The server at the entry of run(): nothing spawned, nothing promised.
BootEntry ==
    [phase |-> "starting", file |-> NoScript, stored |-> NoPrelude, slot |-> 0,
     promised |-> NoPrelude, kids |-> <<>>]

BootIdle == boot = BootEntry

AuxIdle == LoopIdle /\ BootIdle

\* Interpreter::spawn in the parent: the forked child holds its own copy of
\* prelude_code and has not yet written the file.
BootSpawn(b, forkOk) ==
    IF forkOk /\ Len(b.kids) < MaxBootKids
    THEN [ok |-> TRUE,
          b |-> [b EXCEPT !.kids = Append(@, [prelude |-> b.stored, pc |-> "forked",
                                              ran |-> NoScript, taken |-> FALSE,
                                              promise |-> NoPrelude]),
                          !.slot = Len(b.kids) + 1]]
    ELSE [ok |-> FALSE, b |-> b]

\* graceful_kill on the child of the slot: a child that dies is reaped.
BootKill(b, dies) ==
    IF b.slot # 0 /\ dies /\ b.kids[b.slot].pc # "dead"
    THEN [b EXCEPT !.kids[b.slot].pc = "dead"]
    ELSE b

\* ServerState::run up to the loop: the first hot spare, with no prelude.
BootRun ==
    /\ boot.phase = "starting"
    /\ \E forkOk \in BOOLEAN :
        LET sp == BootSpawn(boot, forkOk) IN
        boot' = [sp.b EXCEPT !.phase = IF sp.ok THEN "serving" ELSE "exited"]
    /\ UNCHANGED <<pidVars, srvVars, supVars, strVars, cliVars, px, backlog,
                   waitpid_on, sk, ev>>

\* `INIT p` served by handle_initialize: kill the spare, store p, spawn; the
\* answer is OK when the spawn succeeded, and p is then what the server has
\* promised its clients.
BootServeInit ==
    /\ boot.phase = "serving"
    /\ \E p \in BootPreludes, dies \in BOOLEAN, forkOk \in BOOLEAN :
        LET b1 == [BootKill(boot, dies) EXCEPT !.stored = SomePrelude(p)]
            sp == BootSpawn(b1, forkOk)
        IN  boot' = [sp.b EXCEPT !.promised =
                                    IF sp.ok THEN SomePrelude(p) ELSE NoPrelude]
    /\ UNCHANGED <<pidVars, srvVars, supVars, strVars, cliVars, px, backlog,
                   waitpid_on, sk, ev>>

\* The hot spare handed to a client by handle_run_request: the slot is
\* emptied, the descriptor sent, the replacement spawned.
BootServeTake ==
    /\ boot.phase = "serving"
    /\ boot.slot # 0
    /\ \E sendOk \in BOOLEAN, forkOk \in BOOLEAN :
        LET b1 == [boot EXCEPT !.slot = 0,
                               !.kids[boot.slot].taken = sendOk,
                               !.kids[boot.slot].promise = boot.promised]
        IN  boot' = IF sendOk THEN BootSpawn(b1, forkOk).b ELSE b1
    /\ UNCHANGED <<pidVars, srvVars, supVars, strVars, cliVars, px, backlog,
                   waitpid_on, sk, ev>>

\* A forked child reaches std::fs::write(SCRIPT_PATH, script_with_prelude).
BootChildWrites(i) ==
    /\ boot.kids[i].pc = "forked"
    /\ boot' = [boot EXCEPT !.file = ScriptWithPrelude(boot.kids[i].prelude),
                            !.kids[i].pc = "written"]
    /\ UNCHANGED <<pidVars, srvVars, supVars, strVars, cliVars, px, backlog,
                   waitpid_on, sk, ev>>

\* The child's execvp of python3 SCRIPT_PATH: the interpreter runs what the
\* file holds when it opens it.
BootChildExecs(i) ==
    /\ boot.kids[i].pc = "written"
    /\ boot' = [boot EXCEPT !.kids[i].ran = boot.file, !.kids[i].pc = "running"]
    /\ UNCHANGED <<pidVars, srvVars, supVars, strVars, cliVars, px, backlog,
                   waitpid_on, sk, ev>>

BootNext ==
    \/ BootRun
    \/ BootServeInit
    \/ BootServeTake
    \/ \E i \in 1..Len(boot.kids) : BootChildWrites(i)
    \/ \E i \in 1..Len(boot.kids) : BootChildExecs(i)

(***************************************************************************)
(*                           Specifications                                *)
(***************************************************************************)

\* Each specification moves its own component and holds the others at their
\* initial values.
IoIdle == PxIdle /\ BlockIdle /\ SkIdle /\ AuxIdle

Idle == StrIdle /\ CliInit /\ IoIdle

Init == SrvInit /\ PidInit /\ pidfile = NoFile /\ SupInit /\ Idle
Next == SrvNext
Spec == Init /\ [][Next]_vars

InitPid == PidInit /\ SrvInit /\ SupInit /\ Idle
SpecPid == InitPid /\ [][PidNext]_vars

InitSup == SupInit /\ SrvInit /\ PidInit /\ pidfile = NoFile /\ Idle
SpecSup == InitSup /\ [][SupNext]_vars

InitWrap == WrapInit /\ SrvInit /\ PidInit /\ pidfile = NoFile /\ Idle
SpecWrap == InitWrap /\ [][SupNext]_vars

\* The supervisor with spawns that fail.
SpecSpawn == InitSup /\ [][SpawnNext]_vars

\* A ChildId of the sample is displayed and the text parsed back.
InitChildId ==
    /\ SrvInit /\ PidInit /\ pidfile = NoFile /\ SupInit /\ CliInit /\ IoIdle
    /\ cid \in SampleChildIds
    /\ cid_text = <<>>
    /\ parsed = ParseChildIdError
    /\ cid_pc = "value"
NextChildId == DisplayChildId \/ ParseChildId
SpecChildId == InitChildId /\ [][NextChildId]_vars

\* from_str is applied to every text up to MaxLen.
InitParse ==
    /\ SrvInit /\ PidInit /\ pidfile = NoFile /\ SupInit /\ CliInit /\ IoIdle
    /\ cid = NoChildId
    /\ cid_text \in Texts
    /\ parsed = ParseChildIdError
    /\ cid_pc = "text"
SpecParse == InitParse /\ [][ParseChildId]_vars

\* Clients running `py-hotstart` against one server.
InitCli ==
    /\ CliInit /\ StrIdle /\ SrvInit /\ PidInit /\ pidfile = NoFile /\ SupInit
    /\ IoIdle
SpecCli == InitCli /\ [][CliNext]_vars

\* The accept loop of hsserver.rs with clients connecting.
SpecBlocking == Init /\ [][BlockingNext]_vars

\* One session of the terminal proxy.
InitProxy ==
    /\ \E m \in CallerModes : px = [ProxyEntry EXCEPT !.termios = m, !.original = m]
    /\ StrIdle /\ CliInit /\ SrvInit /\ PidInit /\ pidfile = NoFile
    /\ SupInit /\ BlockIdle /\ SkIdle /\ AuxIdle
SpecProxy == InitProxy /\ [][ProxyNext]_vars

\* The same with the client process running whenever it can take a step.
SpecProxyFair ==
    InitProxy /\ [][ProxyNext]_vars
        /\ WF_vars(ProxySetup) /\ WF_vars(ProxyIteration)

\* One message with descriptors sent over a stream pair and received.
InitFd ==
    /\ \E bs \in Messages, fds \in FdLists, b \in 1..MaxBuf, room \in 0..MaxRoom :
        sk = [SkEntry EXCEPT !.bytes = bs, !.fds = fds, !.byte_room = b,
                             !.room = room]
    /\ StrIdle /\ CliInit /\ SrvInit /\ PidInit /\ pidfile = NoFile
    /\ SupInit /\ BlockIdle /\ PxIdle /\ AuxIdle
SpecFd == InitFd /\ [][FdNext]_vars

\* Interpreters spawned, handed off by TAKE and instructed by their clients.
InitChan ==
    /\ IhIdle /\ CliStart /\ StrIdle /\ SrvInit /\ PidInit /\ pidfile = NoFile
    /\ SupInit /\ IoIdle
SpecChan == InitChan /\ [][ChanNext]_vars

\* The readiness loop of hsserver.old2.rs over connecting clients and signals.
InitLoop ==
    /\ LoopIdle /\ BootIdle /\ PxIdle /\ BlockIdle /\ SkIdle /\ StrIdle /\ CliInit
    /\ SrvInit /\ PidInit /\ pidfile = NoFile /\ SupInit
SpecLoop == InitLoop /\ [][LoopNext]_vars

\* The server's spawns, INITs and hand-offs with the children it forked.
InitBoot ==
    /\ BootIdle /\ LoopIdle /\ PxIdle /\ BlockIdle /\ SkIdle /\ StrIdle /\ CliInit
    /\ SrvInit /\ PidInit /\ pidfile = NoFile /\ SupInit
SpecBoot == InitBoot /\ [][BootNext]_vars

(***************************************************************************)
(*                               Claims                                    *)
(***************************************************************************)

\* C1: of two processes racing through PidFileGuard::new on one path, at most
\* one comes out holding the guard, whatever the path held at the start.
C1_AtMostOneGuard == Cardinality({p \in Acquirers : acq[p].pc = "guard"}) <= 1

\* The last connection was a RUN whose handler sent `OK <pid>` with the
\* descriptor and returned Ok.
RunSucceeded == conn.req = "RUN" /\ conn.result = "ok" /\ conn.sent

HandedInsts == {handed[i].inst : i \in 1..Len(handed)}

\* C2: when a RUN handler has sent its reply and returned Ok, the slot holds an
\* interpreter forked during that handler, which is none of those handed off;
\* so the interpreters handed off by successive RUNs are pairwise distinct.
C2_RefillBeforeServe ==
    /\ RunSucceeded =>
          /\ current_interpreter # NoInterp
          /\ current_interpreter.inst > conn.procs_before
          /\ current_interpreter.inst \notin HandedInsts
          /\ current_interpreter.inst \in server_fds
    /\ \A i, j \in 1..Len(handed) : i # j => handed[i].inst # handed[j].inst

\* C2's case: two RUNs in a row have each handed off an interpreter.
C2_Witness == RunSucceeded /\ Len(handed) >= 2 /\ conn.errs_before = 0

\* C3: whenever the server waits for the next connection, the hot-spare slot is
\* non-empty.
C3_SlotNonEmptyAtAccept == phase = "accepting" => current_interpreter # NoInterp

\* C4: when the sendmsg of a RUN reply fails, the slot still holds the hot spare
\* and the server still has its PTY master open.
C4_SpareKeptOnSendFailure ==
    (conn.req = "RUN" /\ conn.took # NoInterp /\ ~conn.sent) =>
        /\ current_interpreter = conn.took
        /\ conn.took.inst \in server_fds

\* C5: every RUN reply carries an id no earlier RUN reply carried, and the slot
\* never again holds an interpreter that was handed off.
C5_NoInterpreterHandedTwice ==
    /\ \A i, j \in 1..Len(handed) : i # j => handed[i].pid # handed[j].pid
    /\ current_interpreter.inst \notin HandedInsts

\* C6: on every accepted connection that carried a request the server writes
\* exactly one response (a peer that closed without sending gets none).
C6_ExactlyOneResponse ==
    (nconn > 0 /\ conn.req # "") => Len(conn.writes) = 1

\* C7: a handler error does not stop the server: the `ERROR: <message>` line is
\* the last thing written on that connection and the server accepts again.
C7_ErrorAnsweredAndLoopContinues ==
    /\ nconn > 0 => phase = "accepting"
    /\ conn.result = "err" =>
          /\ Len(conn.writes) >= 1
          /\ conn.writes[Len(conn.writes)].text = "ERROR: <message>"

\* C7's case: after a connection whose handler failed, a RUN has been served.
C7_Witness == conn.errs_before >= 1 /\ RunSucceeded

\* C8: the ids returned by spawn_interpreter are strictly increasing (in the
\* order of u32), so none is returned twice.
C8_SeqStrictlyIncreasing ==
    \A i \in 1..(Len(issued) - 1) : U32Less(issued[i], issued[i + 1])

RingEntries(r) == {<<r.child_ids[k], r.exit_codes[k]>> : k \in 1..r.count}
MinOf(a, b) == IF a < b THEN a ELSE b

\* C9: the ring holds exactly the last min(n, limit) of the n exits recorded: get
\* returns the code of each of them, and absent for the older ones; every reaped
\* child's exit has been recorded.
C9_RingHoldsMostRecent ==
    LET n == Len(exits)
        l == exit_info.limit
    IN  /\ exit_info.count = MinOf(n, l)
        /\ RingEntries(exit_info) =
              {<<exits[i].id, exits[i].code>> : i \in {k \in 1..n : n - k < l}}
        /\ \A i \in 1..n :
              ExitInfoGet(exit_info, exits[i].id) =
                  IF n - i < l THEN SomeCode(exits[i].code) ELSE NoCode
        /\ \A c \in 1..Len(children) :
              children[c].st = "reaped" =>
                  \E i \in 1..n : exits[i].id = children[c].id

\* C9's case: a set on a full ring has evicted the oldest exit.
C9_Witness == Len(exits) > exit_info.limit /\ exit_info.start # 0

\* C10: a lookup answers with a code only for an id that was passed to set, and
\* then with the code set recorded for it.
C10_GetOnlyWhatWasSet ==
    (last_get.called /\ last_get.ok) =>
        \E i \in 1..Len(exits) :
            exits[i].id = last_get.id /\ exits[i].code = last_get.code

\* The code the claim prescribes for a wait status: the status integer of a
\* normal exit, 128 + signal number of a signal death.
EncodedStatus(status) ==
    CASE status.kind = "exited" -> status.n
      [] status.kind = "signaled" -> 128 + status.n

ChildrenWithId(id) == {i \in 1..Len(children) : children[i].id = id}

HandedAndTerminated(pid) ==
    {i \in 1..Len(handed) :
        handed[i].pid = pid /\ procs[handed[i].inst].st = "zombie"}

\* C12: an EXITCODE request that carries the id of a handed-off interpreter which
\* has already terminated is answered on its connection with the one response
\* `OK <code>`.
C12_ExitcodeAnswered ==
    [][(/\ nconn' = nconn + 1
        /\ conn'.req = "EXITCODE"
        /\ HandedAndTerminated(conn'.arg) # {})
          => /\ Len(conn'.writes) = 1
             /\ conn'.writes[1].text = "OK <code>"]_vars

\* The ids the supervisor has never assigned, and those whose exit has been
\* overwritten in the ring by RingLimit later exits.
NeverAssigned(id) == \A k \in 1..Len(issued) : issued[k] # id
AgedOut(id) ==
    \E k \in 1..Len(exits) :
        exits[k].id = id /\ Len(exits) - k >= exit_info.limit

\* C13: a get_exit_code called for an id that was never assigned, or whose exit
\* has aged out of the ring, returns an error, whatever pid the id carries.
C13_UnknownChildError ==
    [][(/\ last_get'.called
        /\ last_get' # last_get
        /\ NeverAssigned(last_get'.id) \/ AgedOut(last_get'.id))
          => ~last_get'.ok]_vars

\* A step that is a call of Supervisor::kill.
KillStep == last_kill'.called /\ last_kill' # last_kill

C15_KillIdempotent ==
    [][(/\ KillStep
        /\ \E k \in 1..Len(exits) : exits[k].id = last_kill'.id)
          => /\ last_kill'.ok
             /\ \E k \in 1..Len(exits) :
                   exits[k].id = last_kill'.id /\ exits[k].code = last_kill'.code
             /\ last_kill'.sigterm = 0
             /\ ~last_kill'.sigkill
             /\ UNCHANGED <<next_child_id, running_children, exit_info,
                            children>>]_vars

\* C17: parsing the text Display writes for a ChildId gives back that ChildId,
\* for seq over the u32 range and pid over the i32 range; ChildId (2, 81581) is
\* written `(2,81581)`.
C17_ChildIdRoundTrip ==
    /\ cid_pc = "reparsed" =>
          parsed.ok /\ parsed.id = cid.id /\ parsed.pid = cid.pid
    /\ (cid_pc = "shown" /\ cid = [id |-> 2, pid |-> 81581]) =>
          cid_text = <<"(", "2", ",", "8", "1", "5", "8", "1", ")">>

\* C17's case: the ChildId (u32::MAX, i32::MIN) has gone through Display and
\* from_str.
C17_Witness ==
    /\ cid_pc = "reparsed"
    /\ cid = [id |-> U32Max, pid |-> I32Min]
    /\ cid_text = <<"(", "4", "2", "9", "4", "9", "6", "7", "2", "9", "5", ",",
                    "-", "2", "1", "4", "7", "4", "8", "3", "6", "4", "8", ")">>
    /\ parsed.ok

\* The inputs C18 names: no opening parenthesis, no closing parenthesis, no
\* comma, an empty component, or a component with a character that is not a
\* decimal digit. The components are the text between `(` and the first comma
\* and the text between that comma and `)`.
Malformed(s) ==
    \/ s = <<>>
    \/ s[1] # "("
    \/ s[Len(s)] # ")"
    \/ Len(s) < 2
    \/ \A i \in 1..Len(s) : s[i] # ","
    \/ LET inner == SubSeq(s, 2, Len(s) - 1)
           c == FirstComma(inner)
           x == SubSeq(inner, 1, c - 1)
           y == SubSeq(inner, c + 1, Len(inner))
       IN  \/ x = <<>> \/ y = <<>>
           \/ \E i \in 1..Len(x) : x[i] \notin Digits
           \/ \E i \in 1..Len(y) : y[i] \notin Digits

\* C18: from_str fails for every malformed input.
C18_MalformedRejected ==
    (cid_pc = "parsed" /\ Malformed(cid_text)) => ~parsed.ok

\* The id in the body of the TAKE answer the client received.
TakenIdText(p) == StripPrefix(p.took, OkPrefix)

\* C16: in a run invocation the EXITCODE request carries exactly the id of the
\* client's own TAKE answer, it is sent only after the terminal proxy has
\* returned, and the exit code of the client process is the code of the
\* server's `OK <code>` answer.
C16_ExitcodeOfOwnTake ==
    \A c \in Clients :
        LET p == cli.proc[c] IN
        /\ p.req # NoText =>
              /\ p.req = <<ExitcodePrefix>> \o TakenIdText(p)
              /\ TakenIdText(p) # NoText
              /\ p.proxied
        /\ (p.pc = "exited" /\ HasPrefix(p.answer, OkPrefix)) =>
              \E code \in ChildExitCodes :
                  /\ p.answer = <<OkPrefix>> \o DisplayI32(code)
                  /\ p.exit = code

\* C16's case: two clients have exited on `OK <code>` answers with different
\* codes, each for the id of its own TAKE.
C16_Witness ==
    /\ cli.proc[1].pc = "exited" /\ cli.proc[2].pc = "exited"
    /\ cli.proc[1].answer = <<OkPrefix, "1", "4", "3">>
    /\ cli.proc[2].answer = <<OkPrefix, "0">>
    /\ cli.proc[1].exit = 143 /\ cli.proc[2].exit = 0
    /\ cli.proc[1].req = <<ExitcodePrefix, "(", "2", ",", "1", ")">>
    /\ cli.proc[2].req = <<ExitcodePrefix, "(", "1", ",", "1", ")">>

\* An INIT request has just been answered `OK`.
InitAnsweredOk ==
    /\ nconn' = nconn + 1
    /\ conn'.req = "INIT"
    /\ conn'.writes = <<Plain("OK")>>

\* C19: when an INIT request is answered `OK`, the hot spare that was in the
\* slot before the request has terminated and been reaped by the server, by
\* the graceful signal or, if it was still running at the end of the graceful
\* window, by the forceful one.
C19_InitReapsOldSpare ==
    [][(InitAnsweredOk /\ current_interpreter # NoInterp) =>
          procs'[current_interpreter.inst].st = "reaped"]_vars

\* An INIT request with the empty prelude has just been served without an
\* error in the handler.
EmptyInitServed ==
    /\ nconn' = nconn + 1
    /\ conn'.req = "INIT"
    /\ conn'.text = InitializePrelude(<<>>)
    /\ conn'.result = "ok"

\* C20: an INIT request with an empty prelude is accepted like any other INIT:
\* the empty prelude is stored, a new hot spare replaces the one in the slot
\* and the answer is `OK`.
C20_EmptyPreludeAccepted ==
    [][EmptyInitServed =>
          /\ conn'.writes = <<Plain("OK")>>
          /\ prelude_code' = SomePrelude(<<>>)
          /\ current_interpreter' # NoInterp
          /\ current_interpreter' # current_interpreter]_vars

\* C21: once a read of standard input has returned zero bytes, standard input
\* is not read again for the rest of the proxy session.
C21_NoStdinReadAfterEof == px.reads_after_eof = 0

ProxyDone == px.pc \in {"returned", "failed"}

\* C22: when the interpreter has exited and the PTY master is at EOF, do_proxy
\* eventually returns, also when standard input reached EOF earlier and when
\* window-change notifications keep arriving.
C22_ProxyTerminates == (px.child = "exited") ~> ProxyDone

\* C23: on every exit path of do_proxy the caller's terminal modes are those
\* of the snapshot taken before raw mode was set.
C23_TerminalRestored == ProxyDone => px.termios = px.original

\* C24: no request handler blocks the server loop: while the request of
\* another client waits to be accepted, the server is not inside the EXITCODE
\* handler waiting for an interpreter that still runs.
C24_NoHandlerBlocks ==
    ~(/\ phase = "waitpid"
      /\ backlog > 0
      /\ procs[waitpid_on].st = "alive")

\* A request that is no INIT, RUN or EXITCODE has just been served, the write
\* of the answer having succeeded.
OtherServed ==
    /\ nconn' = nconn + 1
    /\ conn'.req = "<other>"
    /\ conn'.result = "ok"

\* C25: a request that is none of the known commands is answered
\* `ERROR: Unknown command` and changes nothing: the hot-spare slot, the stored
\* prelude and the children are the same after the request as before it.
C25_UnknownCommandAnswer ==
    [][OtherServed =>
          /\ conn'.writes = <<Plain("ERROR: Unknown command")>>
          /\ current_interpreter' = current_interpreter
          /\ prelude_code' = prelude_code
          /\ procs' = procs
          /\ server_fds' = server_fds]_vars

Unreaped == {i \in 1..Len(children) : children[i].st # "reaped"}
Reaped == {i \in 1..Len(children) : children[i].st = "reaped"}

\* C28: while the supervisor runs, the keys of running_children are the pids
\* of the children it spawned and has not yet reaped, each mapped to that
\* child's seq; every reaped child has exactly one (seq, exit_code) record and
\* there are no other records, so no seq is recorded twice.
C28_RunningMapIsUnreaped ==
    SupUp =>
        /\ running_children =
              {[pid |-> children[i].pid, id |-> children[i].id] : i \in Unreaped}
        /\ \A i, j \in Unreaped : children[i].pid = children[j].pid => i = j
        /\ Len(exits) = Cardinality(Reaped)
        /\ \A i \in Reaped :
              \E k \in 1..Len(exits) :
                 /\ exits[k] = [id |-> children[i].id,
                                code |-> ExitCodeOf(children[i].status)]
        /\ \A k, l \in 1..Len(exits) : exits[k].id = exits[l].id => k = l

\* C28's case: two children reaped, one of them through a reused pid, and a
\* third still in the map.
C28_Witness ==
    /\ SupUp
    /\ Len(exits) = 2
    /\ Cardinality(running_children) = 1
    /\ \E i, j \in Reaped : i # j /\ children[i].pid = children[j].pid

Dropped == sup_state = "dropped"
DropStep == ~Dropped /\ Dropped'
LoggedKills(log) == {[pid |-> log[n].pid, id |-> log[n].id] : n \in 1..Len(log)}

\* C29: when the supervisor is dropped, kill is called exactly once on every
\* entry that running_children held at that moment, also after a kill that
\* failed; every kill that succeeded has reaped its child and removed its key,
\* and afterwards no child that was in the map, or still is, is running.
C29_DropKillsAll ==
    [][DropStep =>
          /\ LoggedKills(drop_log') = running_children
          /\ Len(drop_log') = Cardinality(running_children)
          /\ \A n \in 1..Len(drop_log') :
                drop_log'[n].ok =>
                   /\ ~MapHas(running_children', drop_log'[n].pid)
                   /\ \E i \in 1..Len(children') :
                         /\ children'[i].id = drop_log'[n].id
                         /\ children'[i].st = "reaped"
          /\ \A i \in 1..Len(children') :
                [pid |-> children[i].pid, id |-> children[i].id]
                      \in running_children \cup running_children'
                   => children'[i].st # "alive"]_vars

\* C29's case: two children were in the map, the kill of the first failed and
\* the second was killed and reaped all the same.
C29_Witness ==
    /\ Dropped
    /\ Len(drop_log) = 2
    /\ ~drop_log[1].ok /\ drop_log[2].ok
    /\ \A i \in 1..Len(children) : children[i].st # "alive"

\* A step of handle_sigchld that returned Ok: the only call that reaps and
\* leaves no result of get_exit_code or kill behind.
SigchldStep ==
    /\ SupUp /\ SupUp' /\ Returned /\ Returned'
    /\ Len(children') = Len(children)
    /\ \E i \in 1..Len(children) :
          children[i].st # "reaped" /\ children'[i].st = "reaped"

\* C30: a handle_sigchld that returns Ok has reaped every child that had
\* terminated before the call, however many there were, and child_exit has
\* recorded each one's (seq, exit code) once; the children still running and
\* their map entries are as before, the call having waited for none of them.
C30_SigchldReapsAllTerminated ==
    [][SigchldStep =>
            /\ Len(children') = Len(children)
            /\ \A i \in Zombies(children) :
                  /\ children'[i].st = "reaped"
                  /\ Cardinality({n \in Len(exits) + 1 .. Len(exits') :
                         exits'[n] = [id |-> children[i].id,
                                      code |-> ExitCodeOf(children[i].status)]}) = 1
                  /\ ~MapHas(running_children', children[i].pid)
            /\ Len(exits') = Len(exits) + Cardinality(Zombies(children))
            /\ \A i \in 1..Len(children) :
                  children[i].st = "alive" =>
                     /\ children'[i] = children[i]
                     /\ [pid |-> children[i].pid, id |-> children[i].id]
                           \in running_children']_vars

\* C30's case: two children had terminated, the call has reaped both and
\* recorded both, and nothing is left in the map.
C30_Witness ==
    /\ SupUp /\ Returned
    /\ Len(children) = 2 /\ Reaped = {1, 2}
    /\ children[1].pid # children[2].pid
    /\ Len(exits) = 2 /\ exits[1].id # exits[2].id
    /\ running_children = {}

ChanLines(i) == [n \in 1..Len(ih[i].chan) |-> ih[i].chan[n].line]
IsPrefix(a, b) == Len(a) <= Len(b) /\ a = SubSeq(b, 1, Len(a))

BodyDidNotParse(h) == ~h.ok /\ h.error = <<"invalid ChildId">>

\* C33: when the body of a TAKE reply does not parse as a ChildId, from_raw
\* returns its error having taken ownership of neither received descriptor
\* and having closed neither.
C33_AdoptAfterParse ==
    \A i \in Handles :
        BodyDidNotParse(ih[i].client) =>
            ih[i].client.adopted = {} /\ ih[i].client.closed = {}

\* C34: a wake-up of the server loop in which the termination stream was
\* readable ends with the server stopped, no connection accepted and no
\* client served in that wake-up.
C34_StopBeforeServing ==
    ev.pc = "stopped" => ev.accepted = 0 /\ ev.served = 0

\* C35: end of input on standard input does not end the forwarding of PTY
\* output: while the session goes on after the zero-byte read of standard
\* input, the proxy still holds the PTY master open to read the interpreter's
\* output from it.
C35_ForwardsAfterStdinEof ==
    (px.pc = "loop" /\ px.stdin_eof) => px.pty_open

\* C36: an interpreter handed out by a TAKE that follows an `INIT p` answered
\* OK, and precedes the next INIT, runs the bootstrap script with prelude p.
C36_RunsPromisedPrelude ==
    \A i \in 1..Len(boot.kids) :
        (/\ boot.kids[i].taken
         /\ boot.kids[i].promise.some
         /\ boot.kids[i].pc = "running") =>
            boot.kids[i].ran = ScriptWithPrelude(boot.kids[i].promise)

\* C37: no signal is delivered to a pid whose child the server has already
\* reaped: of the signals the kill of an INIT sends, the graceful one goes to
\* a child not yet reaped, and the forceful one is sent only while the child
\* is still not reaped at the end of the graceful window.
C37_NoSignalAfterReap ==
    \A n \in 1..Len(conn.signals) : ~conn.signals[n].reaped

\* C38: the hot-spare slot never holds an interpreter the server has killed:
\* once an INIT has been handled, with success or with an error, the slot is
\* empty or holds a child the server has not reaped.
C38_SlotNeverKilled ==
    (conn.req = "INIT" /\ current_interpreter # NoInterp) =>
        procs[current_interpreter.inst].st # "reaped"

\* spawn_interpreter has just returned a spawn error.
SpawnFailedStep == last_spawn'.called /\ ~last_spawn'.ok /\ ~last_spawn.called

\* C39: a spawn_interpreter that returns a spawn error leaves next_child_id,
\* the running-children map and the exit ring as they were: no seq is
\* consumed, no child is tracked.
C39_FailedSpawnFrame ==
    [][SpawnFailedStep =>
          /\ next_child_id' = next_child_id
          /\ running_children' = running_children
          /\ exit_info' = exit_info
          /\ issued' = issued
          /\ children' = children]_vars

\* A spawn has failed after one child was spawned and another spawned and
\* reaped.
C39_Witness ==
    /\ last_spawn.called /\ ~last_spawn.ok
    /\ next_child_id = 3
    /\ Cardinality(running_children) = 1
    /\ Len(exits) = 1

\* C40: the proxy never uses a descriptor it has already closed: the PTY
\* master is neither polled, read nor written after the proxy has closed it,
\* and it is closed at most once over the session.
C40_NoUseAfterClose == ~px.used_closed /\ px.pty_closes <= 1

====
